---- MODULE Spec2Model ----
(***************************************************************************)
(* A model of the dewy Router (src/router.ts, lines 1-245): the scope      *)
(* stack built by group(), the route table built by addRoute() and its     *)
(* sugar registrars, the global middleware list built by use(), and        *)
(* dispatch() with the recursive middleware pipeline execute().            *)
(*                                                                         *)
(* Strings the code computes with (paths, method tokens) are sequences of  *)
(* one-character strings, so that trimming, slash stripping and case       *)
(* folding are computed and not assumed.  Functions passed by the          *)
(* application (handlers, middlewares) are opaque identities; what they do *)
(* when invoked is chosen nondeterministically at each invocation.         *)
(***************************************************************************)
EXTENDS Integers, Sequences, FiniteSets, TLC

VARIABLES
    groups,              \* Router._groups: the scope stack, bottom first
    definedMiddlewares,  \* Router._definedMiddlewares
    routes,              \* Router._routes: method -> list of entries
    errorHandler,        \* Router._errorHandler: "default" or "custom"
    calls,               \* group() activations in progress, outermost first
    nUse,                \* number of use() calls made
    nGroup,              \* number of group() calls made
    nRoute,              \* number of addRoute() calls made
    disp,                \* the dispatch() calls in flight, by call id
    declared             \* history: what each registrar call was written with

vars == <<groups, definedMiddlewares, routes, errorHandler, calls,
          nUse, nGroup, nRoute, disp, declared>>

routerVars == <<groups, definedMiddlewares, routes, errorHandler>>

----------------------------------------------------------------------------
(* Bounds of the model.                                                    *)

MaxCalls == 2     \* registration calls of Spec
MaxOps == 4       \* registration calls of SpecScope and of SpecRaise
MaxPipeOps == 3   \* registration calls of SpecPipeline
MaxReNext == 1    \* next() calls of one dispatch beyond each middleware's first
MaxMethodOps == 2 \* registration calls of SpecMethods
MaxAgainOps == 3  \* registration calls of SpecAgain
MaxConcOps == 3   \* registration calls of SpecConcurrent
MaxInFlight == 2  \* dispatch calls in flight at once in SpecConcurrent
MaxCorsOps == 2   \* registration calls of SpecCors
MaxMidOps == 4    \* registration calls of SpecMidFlight

----------------------------------------------------------------------------
(* Values.                                                                 *)

\* null / undefined where a string naming a host is expected
NULL == "null"

\* undefined where a string the code computes with (a path) is expected
Undefined == <<"undefined">>

Last(s) == s[Len(s)]

Front(s) == SubSeq(s, 1, Len(s) - 1)

\* GroupParams / RouteParams fields of type  X | X[] | null  (router.ts 28-38)
Null == [kind |-> "null"]
One(x) == [kind |-> "one", value |-> x]
Many(xs) == [kind |-> "array", items |-> xs]

\* `v ? (Array.isArray(v) ? v : [v]) : []`  (router.ts 140-145, 192-196),
\* for a v that is null, one non-empty value or an array
AsArray(v) ==
    CASE v.kind = "null" -> <<>>
      [] v.kind = "one" -> <<v.value>>
      [] v.kind = "array" -> v.items

----------------------------------------------------------------------------
(* Paths: normalizePath and joinPath.                                      *)

RECURSIVE StripLeading(_)
\* path.replace(/^\/+/g, "")
StripLeading(s) ==
    IF s # <<>> /\ Head(s) = "/" THEN StripLeading(Tail(s)) ELSE s

RECURSIVE StripTrailing(_)
\* path.replace(/\/+$/g, "")
StripTrailing(s) ==
    IF s # <<>> /\ Last(s) = "/" THEN StripTrailing(Front(s)) ELSE s

normalizePath(path) == <<"/">> \o StripTrailing(StripLeading(path))

joinPath(path, otherPath) ==
    normalizePath(StripTrailing(path) \o <<"/">> \o StripLeading(otherPath))

----------------------------------------------------------------------------
(* Method tokens: trim() and toUpperCase().                                *)

LowerLetters ==
    <<"a", "b", "c", "d", "e", "f", "g", "h", "i", "j", "k", "l", "m",
      "n", "o", "p", "q", "r", "s", "t", "u", "v", "w", "x", "y", "z">>

UpperLetters ==
    <<"A", "B", "C", "D", "E", "F", "G", "H", "I", "J", "K", "L", "M",
      "N", "O", "P", "Q", "R", "S", "T", "U", "V", "W", "X", "Y", "Z">>

\* The upper-case letter of each lower-case ASCII letter.
UpperOf ==
    [c \in {LowerLetters[i] : i \in 1..26} |->
       UpperLetters[CHOOSE i \in 1..26 : LowerLetters[i] = c]]

toUpperCase(s) ==
    [i \in 1..Len(s) |-> IF s[i] \in DOMAIN UpperOf THEN UpperOf[s[i]] ELSE s[i]]

RECURSIVE TrimStart(_)
TrimStart(s) == IF s # <<>> /\ Head(s) = " " THEN TrimStart(Tail(s)) ELSE s

RECURSIVE TrimEnd(_)
TrimEnd(s) == IF s # <<>> /\ Last(s) = " " THEN TrimEnd(Front(s)) ELSE s

trim(s) == TrimEnd(TrimStart(s))

GET == <<"G", "E", "T">>
HEAD == <<"H", "E", "A", "D">>
POST == <<"P", "O", "S", "T">>
PUT == <<"P", "U", "T">>
DELETE == <<"D", "E", "L", "E", "T", "E">>
OPTIONS == <<"O", "P", "T", "I", "O", "N", "S">>
PATCH == <<"P", "A", "T", "C", "H">>

ALL_METHOD == <<GET, HEAD, POST, PUT, DELETE, OPTIONS, PATCH>>

----------------------------------------------------------------------------
(* Patterns.  A PathPattern is a string, a URLPatternInput object or a     *)
(* URLPattern.  A URLPattern is kept as its hostname and pathname          *)
(* components; a component that was not given is the wildcard "*", as the  *)
(* platform's URLPattern reports it.  Pathnames are literal text with an   *)
(* optional trailing "*"; there are no :param segments.                    *)

StrPattern(s) == [kind |-> "string", str |-> s]
ObjPattern(h, p) == [kind |-> "input", hostname |-> h, pathname |-> p]

\* new URLPattern({hostname, pathname}), either of which may be undefined
URLPattern(h, p) ==
    [hostname |-> IF h = NULL THEN "*" ELSE h,
     pathname |-> IF p = Undefined THEN <<"*">> ELSE p]

\* a URLPattern the application built itself and passes as the pattern
BuiltPattern(h, p) ==
    [kind |-> "URLPattern", hostname |-> URLPattern(h, p).hostname,
     pathname |-> URLPattern(h, p).pathname]

\* `...pattern`: an input object's own fields are copied; a URLPattern's
\* components are accessors of its prototype and are not.
SpreadHostname(pattern) ==
    IF pattern.kind = "input" THEN pattern.hostname ELSE NULL

SpreadPathname(pattern) ==
    IF pattern.kind = "input" THEN pattern.pathname ELSE Undefined

\* `pattern.pathname ?? ""`
PathnameOrEmpty(pattern) ==
    IF pattern.pathname = Undefined THEN <<>> ELSE pattern.pathname

\* The body of domains.map(...) in normalizePatterns (router.ts 69-100).
PatternFor(prefix, domain, pattern) ==
    IF prefix # Undefined /\ prefix # <<>>
    THEN IF pattern.kind = "string"
         THEN URLPattern(domain, joinPath(prefix, pattern.str))
         ELSE URLPattern(IF domain # NULL THEN domain ELSE SpreadHostname(pattern),
                         joinPath(prefix, PathnameOrEmpty(pattern)))
    ELSE IF pattern.kind = "string"
         THEN URLPattern(domain, normalizePath(pattern.str))
         ELSE IF domain # NULL
              THEN URLPattern(domain, SpreadPathname(pattern))
              ELSE IF pattern.kind = "URLPattern"
                   THEN [hostname |-> pattern.hostname,
                         pathname |-> pattern.pathname]
                   ELSE URLPattern(pattern.hostname, pattern.pathname)

\* The array `domains` that normalizePatterns maps over (router.ts 65-68):
\* the group's own array, to which null has been pushed when it was empty.
DomainsOf(group) ==
    IF group = Null THEN <<NULL>>
    ELSE IF group.domains = <<>> THEN <<NULL>> ELSE group.domains

normalizePatterns(group, pattern) ==
    LET prefix == IF group = Null THEN Undefined ELSE group.prefix
        domains == DomainsOf(group)
    IN [i \in 1..Len(domains) |-> PatternFor(prefix, domains[i], pattern)]

\* What normalizePatterns leaves in the scope stack: `domains` is the top
\* frame's own array, so the pushed null stays in the frame.
GroupsAfterNormalize(gs) ==
    IF gs = <<>> THEN gs
    ELSE [gs EXCEPT ![Len(gs)].domains = DomainsOf(gs[Len(gs)])]

\* pattern.exec(url) is not null
IsPrefix(p, s) == Len(p) <= Len(s) /\ SubSeq(s, 1, Len(p)) = p

Matches(pattern, hostname, pathname) ==
    /\ pattern.hostname = "*" \/ pattern.hostname = hostname
    /\ IF pattern.pathname # <<>> /\ Last(pattern.pathname) = "*"
       THEN IsPrefix(Front(pattern.pathname), pathname)
       ELSE pattern.pathname = pathname

----------------
(* The registration API.                                                   *)

TopGroup(gs) == IF gs = <<>> THEN Null ELSE Last(gs)

\* The frame group() builds (router.ts 140-152).
NewGroup(lastGroup, params) ==
    [domains |-> (IF lastGroup = Null THEN <<>> ELSE lastGroup.domains)
                   \o AsArray(params.domain),
     prefix |-> joinPath(IF lastGroup = Null THEN <<>> ELSE lastGroup.prefix,
                         IF params.prefix = Undefined THEN <<>> ELSE params.prefix),
     middlewares |-> (IF lastGroup = Null THEN <<>> ELSE lastGroup.middlewares)
                       \o AsArray(params.middleware)]

\* History: the scope a registrar call is written in, read off the group()
\* callbacks that are executing, outermost first, and the call's own
\* arguments: the path segments, the domains and the middlewares in the
\* order they were written.
RECURSIVE Split(_, _)
Split(text, cur) ==
    IF text = <<>> THEN (IF cur = <<>> THEN <<>> ELSE <<cur>>)
    ELSE IF Head(text) = "/"
         THEN (IF cur = <<>> THEN <<>> ELSE <<cur>>) \o Split(Tail(text), <<>>)
         ELSE Split(Tail(text), Append(cur, Head(text)))

\* The non-empty segments between the slashes of a path as written.
Segments(text) == IF text = Undefined THEN <<>> ELSE Split(text, <<>>)

RECURSIVE Flatten(_, _)
Flatten(frames, field) ==
    IF frames = <<>> THEN <<>>
    ELSE Head(frames)[field] \o Flatten(Tail(frames), field)

Declaration(route, fn) ==
    [handler |-> fn,
     kind |-> route.pattern.kind,
     segments |-> Flatten(calls, "segments")
                    \o Segments(IF route.pattern.kind = "string"
                                THEN route.pattern.str ELSE route.pattern.pathname),
     domains |-> Flatten(calls, "domains"),
     methods |-> AsArray(route.method),
     uses |-> nUse,
     scoped |-> Flatten(calls, "middlewares"),
     own |-> AsArray(route.middleware),
     depth |-> Len(calls)]

\* (a use() that also reaches the chains of the entries already registered)
UseRetroactive(middlewares) ==
    /\ definedMiddlewares' = definedMiddlewares \o middlewares
    /\ routes' = [m \in DOMAIN routes |->
                    [i \in 1..Len(routes[m]) |->
                       [routes[m][i] EXCEPT !.middlewares = @ \o middlewares]]]
    /\ nUse' = nUse + 1
    /\ UNCHANGED <<groups, errorHandler, calls, nGroup, nRoute, disp, declared>>

\* use(...middlewares)
Use(middlewares) ==
    /\ definedMiddlewares' = definedMiddlewares \o middlewares
    /\ nUse' = nUse + 1
    /\ UNCHANGED <<groups, routes, errorHandler, calls, nGroup, nRoute, disp,
                   declared>>

\* group(params, handler) up to the call of handler: the frame is pushed
\* and the registration callback starts.
GroupEnter(params) ==
    /\ groups' = Append(groups, NewGroup(TopGroup(groups), params))
    /\ calls' = Append(calls, [id |-> nGroup + 1, saved |-> groups,
                               segments |-> Segments(params.prefix),
                               domains |-> AsArray(params.domain),
                               middlewares |-> AsArray(params.middleware)])
    /\ nGroup' = nGroup + 1
    /\ UNCHANGED <<definedMiddlewares, routes, errorHandler, nUse, nRoute, disp,
                   declared>>

\* handler() returned: this._groups.pop()
GroupReturn ==
    /\ calls # <<>>
    /\ groups' = Front(groups)
    /\ calls' = Front(calls)
    /\ UNCHANGED <<definedMiddlewares, routes, errorHandler, nUse, nGroup,
                   nRoute, disp, declared>>

\* handler() raised: the exception leaves group() from line 154 and
\* line 155 is not reached.
GroupRaise ==
    /\ calls # <<>>
    /\ calls' = Front(calls)
    /\ UNCHANGED <<groups, definedMiddlewares, routes, errorHandler, nUse,
                   nGroup, nRoute, disp, declared>>

\* The array literal of router.ts 208-212 is evaluated once for every
\* pattern of every method of a call: each evaluation makes a new array,
\* named here by the call's handler, the method and the pattern's index.
ChainObject(fn, method, i) == [of |-> fn, method |-> method, index |-> i]

\* (entries whose chain puts the scope's middlewares before the global ones)
EntriesForScopeFirst(group, pattern, fn, middlewares, defined, method) ==
    LET patterns == normalizePatterns(group, pattern)
    IN [i \in 1..Len(patterns) |->
          [pattern |-> patterns[i],
           handler |-> fn,
           chain |-> ChainObject(fn, method, i),
           middlewares |-> (IF group = Null THEN <<>> ELSE group.middlewares)
                             \o defined
                             \o middlewares]]

\* The entries one iteration of `for (let method of methods)` appends.
\* `chain` is the identity of the array that holds the entry's middlewares.
EntriesFor(group, pattern, fn, middlewares, defined, method) ==
    LET patterns == normalizePatterns(group, pattern)
    IN [i \in 1..Len(patterns) |->
          [pattern |-> patterns[i],
           handler |-> fn,
           chain |-> ChainObject(fn, method, i),
           middlewares |-> defined
                             \o (IF group = Null THEN <<>> ELSE group.middlewares)
                             \o middlewares]]

RECURSIVE AddMethodsReplacing(_, _, _, _, _, _)
\* (a loop that keeps one entry per pattern: an entry whose pattern is
\* registered again is taken out of the list and the new one is appended)
AddMethodsReplacing(rs, methods, group, pattern, fn, middlewares) ==
    IF methods = <<>> THEN rs
    ELSE LET method == toUpperCase(trim(Head(methods)))
             routeGroup == IF method \in DOMAIN rs THEN rs[method] ELSE <<>>
             entries == EntriesFor(group, pattern, fn, middlewares,
                                   definedMiddlewares, method)
             kept == SelectSeq(routeGroup,
                               LAMBDA e : \A i \in 1..Len(entries) :
                                            entries[i].pattern # e.pattern)
             next == [m \in DOMAIN rs \cup {method} |->
                        IF m = method THEN kept \o entries ELSE rs[m]]
         IN AddMethodsReplacing(next, Tail(methods), group, pattern, fn,
                                middlewares)

RECURSIVE AddMethods(_, _, _, _, _, _)
\* The loop over methods (router.ts 198-214), from the table rs.
AddMethods(rs, methods, group, pattern, fn, middlewares) ==
    IF methods = <<>> THEN rs
    ELSE LET method == toUpperCase(trim(Head(methods)))
             routeGroup == IF method \in DOMAIN rs THEN rs[method] ELSE <<>>
             added == routeGroup \o EntriesFor(group, pattern, fn, middlewares,
                                               definedMiddlewares, method)
             next == [m \in DOMAIN rs \cup {method} |->
                        IF m = method THEN added ELSE rs[m]]
         IN AddMethods(next, Tail(methods), group, pattern, fn, middlewares)

\* addRoute(route, fn)
AddRoute(route, fn) ==
    LET methods == AsArray(route.method)
        middlewares == AsArray(route.middleware)
    IN /\ routes' = AddMethods(routes, methods, TopGroup(groups), route.pattern,
                               fn, middlewares)
       /\ groups' = IF methods = <<>> THEN groups ELSE GroupsAfterNormalize(groups)
       /\ nRoute' = nRoute + 1
       /\ declared' = Append(declared, Declaration(route, fn))
       /\ UNCHANGED <<definedMiddlewares, errorHandler, calls, nUse, nGroup, disp>>

\* (get without the implied HEAD)
getOnlyGET(pattern, fn) ==
    AddRoute([method |-> Many(<<GET>>), pattern |-> pattern,
              middleware |-> Null], fn)

get(pattern, fn) ==
    AddRoute([method |-> Many(<<GET, HEAD>>), pattern |-> pattern,
              middleware |-> Null], fn)

head(pattern, fn) ==
    AddRoute([method |-> Many(<<HEAD>>), pattern |-> pattern,
              middleware |-> Null], fn)

post(pattern, fn) ==
    AddRoute([method |-> Many(<<POST>>), pattern |-> pattern,
              middleware |-> Null], fn)

put(pattern, fn) ==
    AddRoute([method |-> Many(<<PUT>>), pattern |-> pattern,
              middleware |-> Null], fn)

\* (a del that registers under the registrar's own name)
delAsDEL(pattern, fn) ==
    AddRoute([method |-> Many(<<<<"D", "E", "L">>>>), pattern |-> pattern,
              middleware |-> Null], fn)

del(pattern, fn) ==
    AddRoute([method |-> Many(<<DELETE>>), pattern |-> pattern,
              middleware |-> Null], fn)

options(pattern, fn) ==
    AddRoute([method |-> Many(<<OPTIONS>>), pattern |-> pattern,
              middleware |-> Null], fn)

patch(pattern, fn) ==
    AddRoute([method |-> Many(<<PATCH>>), pattern |-> pattern,
              middleware |-> Null], fn)

all(pattern, fn) ==
    AddRoute([method |-> Many(ALL_METHOD), pattern |-> pattern,
              middleware |-> Null], fn)

----------------------------------------------------------------------------
(* Values that flow through a dispatch: responses and raised errors.       *)

\* The identity of a function of the application, named by the
\* registration call that first passed it.
Fn(src, k) == [src |-> src, n |-> k]

RouterFn == Fn("router", 0)

NoValue == [type |-> "none", status |-> 0, text |-> "", of |-> RouterFn]

\* new Response(text, {status}) made by function `of`
Response(text, status, of) ==
    [type |-> "Response", status |-> status, text |-> text, of |-> of]

\* new RouteNotFoundError("Not Found")
RouteNotFoundError ==
    [type |-> "RouteNotFoundError", status |-> 0, text |-> "Not Found",
     of |-> RouterFn]

\* new ServerError(message, {status}) raised by function `of`
ServerError(message, status, of) ==
    [type |-> "ServerError", status |-> status, text |-> message, of |-> of]

\* any other error raised by function `of`
OtherError(message, of) ==
    [type |-> "Error", status |-> 0, text |-> message, of |-> of]

\* a TypeError or RangeError raised by the platform's Response constructor
PlatformError == [type |-> "Error", status |-> 0, text |-> "TypeError", of |-> RouterFn]

IsResponse(v) == v.type = "Response"
IsError(v) == v.type \in {"RouteNotFoundError", "ServerError", "Error"}

\* Statuses whose responses must have a null body (Fetch: 101, 204, 205, 304).
NullBodyStatus == {101, 204, 205, 304}

\* new Response(body, {status}) with a body that is a string: the platform
\* raises for a status outside 200..599 and for a null body status.
NewResponse(text, status, of) ==
    IF status < 200 \/ status > 599 \/ status \in NullBodyStatus
    THEN PlatformError
    ELSE Response(text, status, of)

\* (a default mapping without the RouteNotFoundError case)
defaultErrorHandlerNo404(error) ==
    CASE error.type = "ServerError" ->
           NewResponse(error.text, IF error.status = 0 THEN 200 ELSE error.status,
                       RouterFn)
      [] OTHER -> NewResponse("Internal Server Error", 500, RouterFn)

\* (a default mapping that answers 500 with the message of the error)
defaultErrorHandlerLeaks(error) ==
    CASE error.type = "ServerError" ->
           NewResponse(error.text, IF error.status = 0 THEN 200 ELSE error.status,
                       RouterFn)
      [] error.type = "RouteNotFoundError" -> NewResponse("Not Found", 404, RouterFn)
      [] OTHER -> NewResponse(error.text, 500, RouterFn)

\* defaultErrorHandler(error): the value it returns, or the error it raises
defaultErrorHandler(error) ==
    CASE error.type = "ServerError" ->
           \* error.init is undefined when status is 0: the platform's default
           NewResponse(error.text, IF error.status = 0 THEN 200 ELSE error.status,
                       RouterFn)
      [] error.type = "RouteNotFoundError" -> NewResponse("Not Found", 404, RouterFn)
      [] OTHER -> NewResponse("Internal Server Error", 500, RouterFn)

\* What the application's own errorHandler may do with an error: return a
\* Response of its own, or raise.
CustomErrorHandlerFn == Fn("errorHandler", 0)

CustomOutcomes(error) ==
    {Response(error.text, 599, CustomErrorHandlerFn),
     OtherError("errorHandler failed", CustomErrorHandlerFn)}

\* (an error boundary that applies the default mapping whatever handler
\* the router was constructed with)
ErrorHandlerOutcomesDefault(handler, error) == {defaultErrorHandler(error)}

\* The outcomes of `return await this._errorHandler(e)` (router.ts 241-243).
ErrorHandlerOutcomes(handler, error) ==
    IF handler = "default" THEN {defaultErrorHandler(error)}
    ELSE CustomOutcomes(error)

----------------------------------------------------------------------------
(* dispatch(request) and the pipeline execute(middlewares, fn, ctx).       *)
(*                                                                         *)
(* A dispatch in flight holds what its activation holds: the request, the  *)
(* entry its scan selected (the locals fn and middlewares), and the stack  *)
(* of the application functions it has invoked and that have not returned: *)
(* the frame at position i <= Len(middlewares) is middlewares[i] waiting   *)
(* in or running after its next(), the frame past the end is fn.  Only the *)
(* top frame runs.  `started` and `finished` are history: the functions in *)
(* the order they were invoked, and in the order they returned or raised,  *)
(* with the value and the number of times each had invoked next; `handled` *)
(* counts the calls of the error handler and `caught` is what it was given.*)

NoRequest == [method |-> <<>>, hostname |-> "", pathname |-> <<>>]

NoEntry == [pattern |-> URLPattern(NULL, Undefined), handler |-> RouterFn,
            middlewares |-> <<>>]

\* A Context made by the middleware `by` and passed to next.
Context(by) == [by |-> by]

\* pattern.exec(request.url) for a pattern that matches: the inputs of the
\* result.
Exec(pattern, request) ==
    [hostname |-> request.hostname, pathname |-> request.pathname]

\* The Context { match, request } dispatch makes for the entry it selected.
DispatchContext(pattern, request) ==
    [by |-> RouterFn, match |-> Exec(pattern, request), request |-> request]

\* An activation: the Context it received, what its latest next() gave
\* it, how often it has invoked next, and the Context it passed to its
\* latest next(), NoValue when it passed none.
Frame(pos, ctx) ==
    [pos |-> pos, ctx |-> ctx, got |-> NoValue, nexts |-> 0, sent |-> NoValue]

Idle ==
    [status |-> "idle", request |-> NoRequest, index |-> 0, entry |-> NoEntry,
     stack |-> <<>>, renexts |-> 0, result |-> NoValue,
     started |-> <<>>, finished |-> <<>>, handled |-> 0, caught |-> NoValue]

RECURSIVE FirstMatchFrom(_, _, _, _)
\* The scan `for (const [pattern, fn, middlewares] of routes)` from index i:
\* the index of the first entry whose pattern matches, 0 when none does.
FirstMatchFrom(list, i, hostname, pathname) ==
    IF i > Len(list) THEN 0
    ELSE IF Matches(list[i].pattern, hostname, pathname) THEN i
    ELSE FirstMatchFrom(list, i + 1, hostname, pathname)

\* (a lookup by the request's method as it is written)
RoutesOfExact(rs, request) ==
    IF request.method \in DOMAIN rs THEN rs[request.method] ELSE <<>>

\* this._routes.get(request.method.toUpperCase()) ?? []
RoutesOf(rs, request) ==
    LET method == toUpperCase(request.method)
    IN IF method \in DOMAIN rs THEN rs[method] ELSE <<>>

\* (a scan that keeps the last match instead of returning at the first)
SelectLast(rs, request) ==
    LET list == RoutesOf(rs, request)
        hits == {i \in 1..Len(list) :
                   Matches(list[i].pattern, request.hostname, request.pathname)}
    IN IF hits = {} THEN 0 ELSE CHOOSE i \in hits : \A j \in hits : j <= i

Select(rs, request) ==
    FirstMatchFrom(RoutesOf(rs, request), 1, request.hostname, request.pathname)

\* The function a frame at position pos of the entry's pipeline runs:
\* execute() calls fn when no middleware is left (router.ts 223-229).
FnAt(entry, pos) ==
    IF pos > Len(entry.middlewares) THEN entry.handler ELSE entry.middlewares[pos]

Started(entry, pos) == [fn |-> FnAt(entry, pos), pos |-> pos]

Finished(entry, frame, v) ==
    [fn |-> FnAt(entry, frame.pos), pos |-> frame.pos, value |-> v,
     nexts |-> frame.nexts]

\* The dispatch call settles with value v, raised or returned to its try
\* block: a Response is returned; an error goes to the error handler, once,
\* and what the error handler raises leaves dispatch (router.ts 232-243).
Settled(dsp, v, out) ==
    IF IsResponse(v)
    THEN [dsp EXCEPT !.status = "resolved", !.result = v, !.stack = <<>>]
    ELSE [dsp EXCEPT !.status = IF IsResponse(out) THEN "resolved" ELSE "rejected",
                     !.result = out, !.stack = <<>>, !.handled = @ + 1,
                     !.caught = v]

SettleOutcomes(v) ==
    IF IsResponse(v) THEN {v} ELSE ErrorHandlerOutcomes(errorHandler, v)

\* (a dispatch that keeps its Context in one object of the router, which
\* every call fills in again, so that the calls in flight see the request
\* and the match of the call that started last)
DispatchStartSharedCtx(d, request) ==
    /\ calls = <<>>
    /\ disp[d].status = "idle"
    /\ LET idx == Select(routes, request)
           entry == RoutesOf(routes, request)[idx]
           shared == DispatchContext(entry.pattern, request)
           Seen(frame) == IF frame.ctx.by = RouterFn
                          THEN [frame EXCEPT !.ctx = shared] ELSE frame
           others == [e \in DOMAIN disp |->
                        [disp[e] EXCEPT !.stack =
                           [i \in 1..Len(disp[e].stack) |-> Seen(disp[e].stack[i])]]]
       IN IF idx = 0
          THEN \E out \in SettleOutcomes(RouteNotFoundError) :
                 disp' = [disp EXCEPT ![d] =
                            Settled([Idle EXCEPT !.request = request],
                                    RouteNotFoundError, out)]
          ELSE disp' = [others EXCEPT ![d] =
                          [Idle EXCEPT !.status = "pending",
                                       !.request = request,
                                       !.index = idx,
                                       !.entry = [handler |-> entry.handler,
                                                  middlewares |-> entry.middlewares,
                                                  pattern |-> entry.pattern],
                                       !.stack = <<Frame(1, shared)>>,
                                       !.started = <<Started(entry, 1)>>]]
    /\ UNCHANGED <<routerVars, calls, nUse, nGroup, nRoute, declared>>

\* (a dispatch that suspends before it scans the table: the call is pending
\* and has selected nothing)
DispatchStartYieldsFirst(d, request) ==
    /\ calls = <<>>
    /\ disp[d].status = "idle"
    /\ disp' = [disp EXCEPT ![d] = [Idle EXCEPT !.status = "pending",
                                                 !.request = request]]
    /\ UNCHANGED <<routerVars, calls, nUse, nGroup, nRoute, declared>>

\* dispatch(request) up to its first suspension: the scan, and either the
\* first function of the selected entry's pipeline is invoked or
\* RouteNotFoundError is raised and handled.
DispatchStart(d, request) ==
    /\ calls = <<>>
    /\ disp[d].status = "idle"
    /\ LET idx == Select(routes, request)
           entry == RoutesOf(routes, request)[idx]
       IN IF idx = 0
          THEN \E out \in SettleOutcomes(RouteNotFoundError) :
                 disp' = [disp EXCEPT ![d] =
                            Settled([Idle EXCEPT !.request = request],
                                    RouteNotFoundError, out)]
          ELSE disp' = [disp EXCEPT ![d] =
                          [Idle EXCEPT !.status = "pending",
                                       !.request = request,
                                       !.index = idx,
                                       !.entry = [handler |-> entry.handler,
                                                  middlewares |-> entry.middlewares,
                                                  pattern |-> entry.pattern],
                                       !.stack = <<Frame(1, DispatchContext(
                                                             entry.pattern,
                                                             request))>>,
                                       !.started = <<Started(entry, 1)>>]]
    /\ UNCHANGED <<routerVars, calls, nUse, nGroup, nRoute, declared>>

Top(d) == Last(disp[d].stack)

\* A group() callback runs to its end without yielding, so the functions
\* of a dispatch run only between top-level registration calls.
Running(d) ==
    calls = <<>> /\ disp[d].status = "pending" /\ disp[d].stack # <<>>

\* (a next that takes the next middleware off the entry's own array, as
\* middlewares.shift() would, instead of destructuring a copy)
CallNextShifts(d, replace) ==
    /\ Running(d)
    /\ Top(d).pos <= Len(disp[d].entry.middlewares)
    /\ Top(d).nexts = 0 \/ disp[d].renexts < MaxReNext
    /\ LET dsp == disp[d]
           n == Len(dsp.stack)
           me == FnAt(dsp.entry, Top(d).pos)
           nextCtx == IF replace THEN Context(me) ELSE NoValue
           ctx == IF nextCtx # NoValue THEN nextCtx ELSE Top(d).ctx
           method == toUpperCase(dsp.request.method)
       IN /\ disp' = [disp EXCEPT ![d] =
               [dsp EXCEPT !.stack = Append([dsp.stack EXCEPT ![n].nexts = @ + 1,
                                                              ![n].got = NoValue,
                                                              ![n].sent = nextCtx],
                                            Frame(Top(d).pos + 1, ctx)),
                           !.renexts = IF Top(d).nexts = 0 THEN @ ELSE @ + 1,
                           !.started = Append(@, Started(dsp.entry,
                                                         Top(d).pos + 1))]]
          /\ routes' = [routes EXCEPT ![method][dsp.index].middlewares =
                          IF @ = <<>> THEN @ ELSE Tail(@)]
    /\ UNCHANGED <<groups, definedMiddlewares, errorHandler, calls, nUse,
                   nGroup, nRoute, declared>>

\* (a next that runs the rest of the chain the first time only and does
\* nothing when it is invoked again)
CallNextGuarded(d, replace) ==
    /\ Running(d)
    /\ Top(d).pos <= Len(disp[d].entry.middlewares)
    /\ Top(d).nexts = 0 \/ disp[d].renexts < MaxReNext
    /\ LET dsp == disp[d]
           n == Len(dsp.stack)
           me == FnAt(dsp.entry, Top(d).pos)
           nextCtx == IF replace THEN Context(me) ELSE NoValue
           ctx == IF nextCtx # NoValue THEN nextCtx ELSE Top(d).ctx
       IN IF Top(d).nexts = 0
          THEN disp' = [disp EXCEPT ![d] =
                 [dsp EXCEPT !.stack = Append([dsp.stack EXCEPT ![n].nexts = @ + 1,
                                                                ![n].got = NoValue,
                                                                ![n].sent = nextCtx],
                                              Frame(Top(d).pos + 1, ctx)),
                             !.started = Append(@, Started(dsp.entry,
                                                           Top(d).pos + 1))]]
          ELSE disp' = [disp EXCEPT ![d] =
                 [dsp EXCEPT !.stack = [dsp.stack EXCEPT ![n].nexts = @ + 1,
                                                          ![n].sent = nextCtx],
                             !.renexts = @ + 1]]
    /\ UNCHANGED <<routerVars, calls, nUse, nGroup, nRoute, declared>>

\* (a next that runs the rest of the chain with the Context its caller
\* received, whatever Context it is given)
CallNextKeepsCtx(d, replace) ==
    /\ Running(d)
    /\ Top(d).pos <= Len(disp[d].entry.middlewares)
    /\ Top(d).nexts = 0 \/ disp[d].renexts < MaxReNext
    /\ LET dsp == disp[d]
           n == Len(dsp.stack)
           me == FnAt(dsp.entry, Top(d).pos)
           nextCtx == IF replace THEN Context(me) ELSE NoValue
           ctx == Top(d).ctx
       IN disp' = [disp EXCEPT ![d] =
            [dsp EXCEPT !.stack = Append([dsp.stack EXCEPT ![n].nexts = @ + 1,
                                                           ![n].got = NoValue,
                                                           ![n].sent = nextCtx],
                                         Frame(Top(d).pos + 1, ctx)),
                        !.renexts = IF Top(d).nexts = 0 THEN @ ELSE @ + 1,
                        !.started = Append(@, Started(dsp.entry, Top(d).pos + 1))]]
    /\ UNCHANGED <<routerVars, calls, nUse, nGroup, nRoute, declared>>

\* The running middleware invokes next(nextCtx): execute() runs the rest of
\* the chain with nextCtx ?? ctx.  replace says whether it passes a Context
\* of its own.  Nothing stops a middleware from invoking next again.
CallNext(d, replace) ==
    /\ Running(d)
    /\ Top(d).pos <= Len(disp[d].entry.middlewares)
    /\ Top(d).nexts = 0 \/ disp[d].renexts < MaxReNext
    /\ LET dsp == disp[d]
           n == Len(dsp.stack)
           me == FnAt(dsp.entry, Top(d).pos)
           nextCtx == IF replace THEN Context(me) ELSE NoValue
           ctx == IF nextCtx # NoValue THEN nextCtx ELSE Top(d).ctx
       IN disp' = [disp EXCEPT ![d] =
            [dsp EXCEPT !.stack = Append([dsp.stack EXCEPT ![n].nexts = @ + 1,
                                                           ![n].got = NoValue,
                                                           ![n].sent = nextCtx],
                                         Frame(Top(d).pos + 1, ctx)),
                        !.renexts = IF Top(d).nexts = 0 THEN @ ELSE @ + 1,
                        !.started = Append(@, Started(dsp.entry, Top(d).pos + 1))]]
    /\ UNCHANGED <<routerVars, calls, nUse, nGroup, nRoute, declared>>

----------------------------------------------------------------------------
(* The cors middleware (middlewares/cors.ts).  Texts that the code joins   *)
(* or compares by letters are sequences of characters; the others are      *)
(* strings.                                                                *)

\* A header that is not set (headers.get gives null), and one that is set.
Absent == [has |-> FALSE]
Value(v) == [has |-> TRUE, value |-> v]

\* headers.get(name) used as a condition: the header is set and its value
\* is not the empty string.
Truthy(header, empty) == header.has /\ header.value # empty

\* array.join(sep)
RECURSIVE Join(_, _)
Join(items, sep) ==
    IF items = <<>> THEN <<>>
    ELSE IF Len(items) = 1 THEN items[1]
    ELSE items[1] \o sep \o Join(Tail(items), sep)

\* Array.from(new Set(items)): the first occurrence of every item, in order.
RECURSIVE NewSet(_)
NewSet(items) ==
    IF items = <<>> THEN <<>>
    ELSE LET front == NewSet(Front(items))
         IN IF \E i \in 1..Len(front) : front[i] = Last(items)
            THEN front ELSE Append(front, Last(items))

\* `${n}` for a number n that is not negative
RECURSIVE NumberToString(_)
NumberToString(n) ==
    LET digit(k) == <<"0", "1", "2", "3", "4", "5", "6", "7", "8", "9">>[k + 1]
    IN IF n < 10 THEN <<digit(n)>>
       ELSE NumberToString(n \div 10) \o <<digit(n % 10)>>

DEFAULT_METHODS == <<GET, HEAD, PUT, PATCH, POST, DELETE>>

\* The headers of a Response that cors reads or writes, none of them set.
NoHeaders ==
    [allowOrigin |-> Absent, vary |-> Absent, allowCredentials |-> Absent,
     allowMethods |-> Absent, allowHeaders |-> Absent, exposeHeaders |-> Absent,
     maxAge |-> Absent, allowPrivateNetwork |-> Absent, contentLength |-> Absent]

\* new Response(text, {status, headers}) made by function `of`
HeadersResponse(text, status, of, headers) ==
    [type |-> "Response", status |-> status, text |-> text, of |-> of,
     headers |-> headers]

\* CorsOptions with the defaults of an option that is left out.
DefaultOptions ==
    [preflightContinue |-> FALSE, allowOrigin |-> Null, allowMethods |-> Null,
     allowCredentials |-> FALSE, allowHeaders |-> Null, exposeHeaders |-> Null,
     maxAge |-> Null, allowPrivateNetwork |-> FALSE]

\* The middleware cors(options) returns.
Cors(opts) == [src |-> "cors", n |-> 0, options |-> opts]

IsCors(f) == f.src = "cors"

\* applyVaryAppend: Vary is the list of its values, written "a, b".
applyVaryAppend(res, value) ==
    LET existsVary == res.headers.vary
    IN IF Truthy(existsVary, <<>>)
       THEN [res EXCEPT !.headers.vary = Value(Append(existsVary.value, value))]
       ELSE [res EXCEPT !.headers.vary = Value(<<value>>)]

\* applyOrigin; allowOrigin is null or the Set made of options.allowOrigin.
applyOrigin(res, allowOrigin, origin) ==
    IF allowOrigin = Null
    THEN [res EXCEPT !.headers.allowOrigin = Value("*")]
    ELSE IF \E i \in 1..Len(allowOrigin.items) : allowOrigin.items[i] = origin
    THEN applyVaryAppend([res EXCEPT !.headers.allowOrigin = Value(origin)],
                         "Origin")
    ELSE res

applyCredentials(res, opts, requestOrigin) ==
    IF opts.allowCredentials
    THEN [res EXCEPT !.headers.allowOrigin =
                       IF @ = Value("*") THEN Value(requestOrigin) ELSE @,
                     !.headers.allowCredentials = Value("true")]
    ELSE res

applyMethods(res, allowMethods) ==
    [res EXCEPT !.headers.allowMethods = Value(Join(allowMethods, <<",">>))]

applyHeaders(res, opts, req) ==
    LET requestHeaders == req.headers.requestHeaders
    IN IF ~Truthy(requestHeaders, <<>>) THEN res
       ELSE IF opts.allowHeaders = Null
       THEN [applyVaryAppend(res, "Access-Control-Request-Headers")
               EXCEPT !.headers.allowHeaders = Value(requestHeaders.value)]
       ELSE [res EXCEPT !.headers.allowHeaders =
                          Value(Join(opts.allowHeaders.items, <<",">>))]

applyExposeHeaders(res, opts) ==
    IF opts.exposeHeaders # Null
    THEN [res EXCEPT !.headers.exposeHeaders =
                       Value(Join(opts.exposeHeaders.items, <<",">>))]
    ELSE res

\* maxAge is null or a number; 0 is falsy.
applyMaxAge(res, opts) ==
    IF opts.maxAge # Null /\ opts.maxAge.value # 0
    THEN [res EXCEPT !.headers.maxAge = Value(NumberToString(opts.maxAge.value))]
    ELSE res

applyAllowPrivateNetwork(res, opts, req) ==
    IF opts.allowPrivateNetwork /\ Truthy(req.headers.requestPrivateNetwork, "")
    THEN [res EXCEPT !.headers.allowPrivateNetwork = Value("true")]
    ELSE res

\* request.headers.get("Origin") ?? ""
RequestOrigin(request) ==
    IF request.headers.origin.has THEN request.headers.origin.value ELSE ""

\* An OPTIONS request with an Access-Control-Request-Method that is not
\* empty (cors.ts 67-71).
IsPreflight(request) ==
    /\ toUpperCase(request.method) = OPTIONS
    /\ Truthy(request.headers.requestMethod, "")

\* (a middleware that treats a preflight request as preflightContinue
\* does, whatever the option says)
corsInvokesNextAlways(me, request) == TRUE

\* Whether the middleware invokes next: always, except for a preflight
\* request without preflightContinue (cors.ts 70, 73-74, 90).
corsInvokesNext(me, request) ==
    ~IsPreflight(request) \/ me.options.preflightContinue

\* The decoration of a preflight response (cors.ts 80-86).
DecoratePreflight(response, opts, request) ==
    LET allowOrigin == IF opts.allowOrigin # Null
                       THEN Many(NewSet(opts.allowOrigin.items)) ELSE Null
        allowMethods == IF opts.allowMethods # Null
                        THEN NewSet(opts.allowMethods.items) ELSE DEFAULT_METHODS
        r1 == applyOrigin(response, allowOrigin, RequestOrigin(request))
        r2 == applyCredentials(r1, opts, RequestOrigin(request))
        r3 == applyMethods(r2, allowMethods)
        r4 == applyHeaders(r3, opts, request)
        r5 == applyMaxAge(r4, opts)
        r6 == applyExposeHeaders(r5, opts)
    IN applyAllowPrivateNetwork(r6, opts, request)

\* The decoration of the response to any other request (cors.ts 92-94).
Decorate(response, opts, request) ==
    LET allowOrigin == IF opts.allowOrigin # Null
                       THEN Many(NewSet(opts.allowOrigin.items)) ELSE Null
        r1 == applyOrigin(response, allowOrigin, RequestOrigin(request))
        r2 == applyCredentials(r1, opts, RequestOrigin(request))
    IN applyExposeHeaders(r2, opts)

\* (a middleware that decorates every response as it does a preflight one)
corsDecoratesAll(me, request, got) ==
    IF IsPreflight(request) /\ ~me.options.preflightContinue
    THEN DecoratePreflight(HeadersResponse("", 204, me,
                             [NoHeaders EXCEPT !.contentLength = Value("0")]),
                           me.options, request)
    ELSE IF IsError(got) THEN got
    ELSE DecoratePreflight(got, me.options, request)

\* (a middleware that decorates the response of an OPTIONS request that is
\* no preflight as it does the response of any other request)
corsDecoratesOptions(me, request, got) ==
    IF IsPreflight(request)
    THEN LET response ==
               IF me.options.preflightContinue THEN got
               ELSE HeadersResponse("", 204, me,
                      [NoHeaders EXCEPT !.contentLength = Value("0")])
         IN IF IsError(response) THEN response
            ELSE DecoratePreflight(response, me.options, request)
    ELSE IF IsError(got) THEN got
    ELSE Decorate(got, me.options, request)

\* What the middleware returns or raises, got being what next gave it when
\* it invoked next: an OPTIONS request that is no preflight gets what next
\* gave; what next raised is raised on; the Response next returned is
\* decorated in place and returned.
cors(me, request, got) ==
    IF toUpperCase(request.method) = OPTIONS
    THEN IF ~Truthy(request.headers.requestMethod, "") THEN got
         ELSE LET response ==
                    IF me.options.preflightContinue THEN got
                    ELSE HeadersResponse("", 204, me,
                           [NoHeaders EXCEPT !.contentLength = Value("0")])
              IN IF IsError(response) THEN response
                 ELSE DecoratePreflight(response, me.options, request)
    ELSE IF IsError(got) THEN got
    ELSE Decorate(got, me.options, request)

----------------------------------------------------------------------------

\* What the running function may return or raise: a Response or an error of
\* its own, or what its last next() gave it (returned on, or not caught).
\* A handler named "resource" sets headers: none that cors writes, or an
\* Access-Control-Allow-Origin and a Vary of its own.
OwnValues(f) ==
    IF f.src \in {"use", "group", "route"}
    THEN {Response("Unauthorized", 401, f), OtherError("failure", f)}
    ELSE IF f.src = "resource"
    THEN {HeadersResponse("success", 200, f, NoHeaders),
          HeadersResponse("success", 200, f,
                          [NoHeaders EXCEPT !.allowOrigin = Value("*"),
                                            !.vary = Value(<<"Accept">>)]),
          OtherError("failure", f)}
    ELSE {Response("body", 200, f), OtherError("failure", f),
          ServerError("teapot", 418, f), ServerError("no content", 204, f),
          ServerError("plain", 0, f)}

Completions(d) ==
    IF ~Running(d) THEN {}
    ELSE LET f == FnAt(disp[d].entry, Top(d).pos)
         IN IF IsCors(f)
            THEN IF corsInvokesNext(f, Top(d).ctx.request) /\ Top(d).nexts = 0
                 THEN {}
                 ELSE {cors(f, Top(d).ctx.request, Top(d).got)}
            ELSE OwnValues(f)
                   \cup (IF Top(d).got = NoValue THEN {} ELSE {Top(d).got})

\* (a pipeline that drops the Response of a middleware that has not invoked
\* next and goes on to the next function of the chain)
CompleteFallsThrough(d, v) ==
    /\ Running(d)
    /\ v \in Completions(d)
    /\ LET dsp == disp[d]
           n == Len(dsp.stack)
           done == [dsp EXCEPT !.finished = Append(@, Finished(dsp.entry, Top(d), v))]
       IN IF Top(d).pos <= Len(dsp.entry.middlewares) /\ Top(d).nexts = 0
             /\ IsResponse(v)
          THEN disp' = [disp EXCEPT ![d] =
                 [done EXCEPT !.stack = [dsp.stack EXCEPT ![n] =
                                           Frame(Top(d).pos + 1, Top(d).ctx)],
                              !.started = Append(@, Started(dsp.entry,
                                                            Top(d).pos + 1))]]
          ELSE IF n = 1
          THEN \E out \in SettleOutcomes(v) :
                 disp' = [disp EXCEPT ![d] = Settled(done, v, out)]
          ELSE disp' = [disp EXCEPT ![d] =
                 [done EXCEPT !.stack = [Front(dsp.stack) EXCEPT ![n - 1].got = v]]]
    /\ UNCHANGED <<routerVars, calls, nUse, nGroup, nRoute, declared>>

\* (a dispatch that goes on to the next matching entry when the pipeline
\* of the selected one has raised)
CompleteTriesNext(d, v) ==
    /\ Running(d)
    /\ v \in Completions(d)
    /\ LET dsp == disp[d]
           n == Len(dsp.stack)
           done == [dsp EXCEPT !.finished = Append(@, Finished(dsp.entry, Top(d), v))]
           list == RoutesOf(routes, dsp.request)
           later == FirstMatchFrom(list, dsp.index + 1, dsp.request.hostname,
                                   dsp.request.pathname)
       IN IF n = 1 /\ IsError(v) /\ later # 0
          THEN disp' = [disp EXCEPT ![d] =
                 [done EXCEPT !.index = later,
                              !.entry = [handler |-> list[later].handler,
                                         middlewares |-> list[later].middlewares,
                                         pattern |-> list[later].pattern],
                              !.stack = <<Frame(1, DispatchContext(
                                                    list[later].pattern,
                                                    dsp.request))>>,
                              !.started = Append(@, Started(list[later], 1))]]
          ELSE IF n = 1
          THEN \E out \in SettleOutcomes(v) :
                 disp' = [disp EXCEPT ![d] = Settled(done, v, out)]
          ELSE disp' = [disp EXCEPT ![d] =
                 [done EXCEPT !.stack = [Front(dsp.stack) EXCEPT ![n - 1].got = v]]]
    /\ UNCHANGED <<routerVars, calls, nUse, nGroup, nRoute, declared>>

\* (a pipeline in which a failure goes straight to the error boundary of
\* dispatch, past the middlewares that are waiting in next)
CompleteErrorsSkip(d, v) ==
    /\ Running(d)
    /\ v \in Completions(d)
    /\ LET dsp == disp[d]
           n == Len(dsp.stack)
           done == [dsp EXCEPT !.finished = Append(@, Finished(dsp.entry, Top(d), v))]
       IN IF n = 1 \/ IsError(v)
          THEN \E out \in SettleOutcomes(v) :
                 disp' = [disp EXCEPT ![d] = Settled(done, v, out)]
          ELSE disp' = [disp EXCEPT ![d] =
                 [done EXCEPT !.stack = [Front(dsp.stack) EXCEPT ![n - 1].got = v]]]
    /\ UNCHANGED <<routerVars, calls, nUse, nGroup, nRoute, declared>>

\* The running function returns or raises v.  Its caller is the frame below
\* it, which resumes holding v, or dispatch itself.
Complete(d, v) ==
    /\ Running(d)
    /\ v \in Completions(d)
    /\ LET dsp == disp[d]
           n == Len(dsp.stack)
           done == [dsp EXCEPT !.finished = Append(@, Finished(dsp.entry, Top(d), v))]
       IN IF n = 1
          THEN \E out \in SettleOutcomes(v) :
                 disp' = [disp EXCEPT ![d] = Settled(done, v, out)]
          ELSE disp' = [disp EXCEPT ![d] =
                 [done EXCEPT !.stack = [Front(dsp.stack) EXCEPT ![n - 1].got = v]]]
    /\ UNCHANGED <<routerVars, calls, nUse, nGroup, nRoute, declared>>

\* The caller of dispatch has taken its result; the call id is free again.
DispatchEnd(d) ==
    /\ calls = <<>>
    /\ disp[d].status \in {"resolved", "rejected"}
    /\ disp' = [disp EXCEPT ![d] = Idle]
    /\ UNCHANGED <<routerVars, calls, nUse, nGroup, nRoute, declared>>

Quiescent == \A d \in DOMAIN disp : disp[d].status = "idle"

----------------------------------------------------------------------------
(* Inputs.                                                                 *)

Hosts == {"a.test", "b.test"}

\* The ways one path fragment may be written.
Spellings(name) ==
    {name, <<"/">> \o name, name \o <<"/">>, <<"/", "/">> \o name \o <<"/", "/">>}

\* The handler passed to the next registrar call, named by the registrar.
NewHandler(registrar) == Fn(registrar, nRoute + 1)

InitWith(errorHandlers, ids) ==
    /\ groups = <<>>
    /\ definedMiddlewares = <<>>
    /\ routes = <<>>
    /\ errorHandler \in errorHandlers
    /\ calls = <<>>
    /\ nUse = 0
    /\ nGroup = 0
    /\ nRoute = 0
    /\ disp = [d \in ids |-> Idle]
    /\ declared = <<>>

----------------------------------------------------------------------------
(* Spec: a router whose routes are all registered at top level, by the     *)
(* sugar registrars, after or before use(); middlewares that invoke next   *)
(* once and return what it gave; one dispatch at a time.                   *)

RoutePatterns ==
    {StrPattern(p) : p \in Spellings(<<"u">>) \cup {<<>>}}
    \cup {ObjPattern("b.test", <<"/", "u">>), BuiltPattern(NULL, Undefined)}

RouteRequests ==
    [method : {GET, HEAD, POST}, hostname : Hosts,
     pathname : {<<"/">>, <<"/", "u">>}]

\* A handler returns its Response or fails; a middleware that has invoked
\* next returns or raises what next gave it.
HandlerValues(d) ==
    {v \in Completions(d) :
       IF Top(d).pos > Len(disp[d].entry.middlewares)
       THEN v.text \in {"body", "failure"} /\ v.of = disp[d].entry.handler
       ELSE v = Top(d).got}

FirstNext(d) == Running(d) /\ Top(d).nexts = 0

Init == InitWith({"default", "custom"}, {1})

Next ==
    \/ /\ Quiescent
       /\ nUse + nRoute < MaxCalls
       /\ \E pattern \in RoutePatterns :
             \/ get(pattern, NewHandler("get"))
             \/ head(pattern, NewHandler("head"))
             \/ post(pattern, NewHandler("post"))
    \/ /\ Quiescent
       /\ nUse + nRoute < MaxCalls
       /\ Use(<<Fn("use", nUse + 1)>>)
    \/ \E request \in RouteRequests : DispatchStart(1, request)
    \/ FirstNext(1) /\ CallNext(1, FALSE)
    \/ \E v \in HandlerValues(1) : Complete(1, v)
    \/ DispatchEnd(1)

Spec == Init /\ [][Next]_vars

----------------------------------------------------------------------------
(* SpecScope: routes registered by get() inside nested groups that give    *)
(* prefixes and domains, whose callbacks return; the default error         *)
(* handler; one dispatch at a time.                                        *)

\* An outermost group is written with the fragment "a", a nested one "v".
PrefixInputs ==
    {Undefined} \cup
    (IF calls = <<>> THEN Spellings(<<"a">>) ELSE Spellings(<<"v">>))

\* An outermost group names no domain or one, a nested one none or two.
DomainInputs ==
    {Null} \cup
    (IF calls = <<>> THEN {One("a.test")} ELSE {Many(<<"a.test", "b.test">>)})

ScopeGroupInputs ==
    [prefix : PrefixInputs, domain : DomainInputs, middleware : {Null}]

ScopePatterns ==
    {StrPattern(p) : p \in Spellings(<<"u">>) \cup {<<"/">>}}
    \cup {ObjPattern(NULL, <<"/", "u">>), BuiltPattern(NULL, <<"/", "u">>)}

\* Requests for the paths the table holds and for a few it may not.
ScopeRequests ==
    [method : {GET}, hostname : {"a.test", "b.test", "c.test"},
     pathname : {<<"/">>, <<"/", "u">>, <<"/", "a", "/", "u">>}
                  \cup {routes[m][i].pattern.pathname :
                          m \in DOMAIN routes \cap {GET},
                          i \in 1..(IF GET \in DOMAIN routes
                                    THEN Len(routes[GET]) ELSE 0)}]

ScopeOps == nGroup + nRoute

InitScope == InitWith({"default"}, {1})

NextScope ==
    \/ /\ Quiescent
       /\ ScopeOps < MaxOps
       /\ \E params \in ScopeGroupInputs : GroupEnter(params)
    \/ /\ Quiescent
       /\ ScopeOps < MaxOps
       /\ \E pattern \in ScopePatterns : get(pattern, NewHandler("get"))
    \/ GroupReturn
    \/ \E request \in ScopeRequests : DispatchStart(1, request)
    \/ \E v \in HandlerValues(1) : Complete(1, v)
    \/ DispatchEnd(1)

SpecScope == InitScope /\ [][NextScope]_vars

----------------------------------------------------------------------------
(* SpecRaise: as SpecScope, with groups that give a prefix only and whose  *)
(* callbacks may raise.                                                    *)

RaiseGroupInputs ==
    [prefix : PrefixInputs, domain : {Null}, middleware : {Null}]

RaisePatterns == {StrPattern(p) : p \in Spellings(<<"u">>) \cup {<<"/">>}}

NextRaise ==
    \/ /\ Quiescent
       /\ ScopeOps < MaxOps
       /\ \E params \in RaiseGroupInputs : GroupEnter(params)
    \/ /\ Quiescent
       /\ ScopeOps < MaxOps
       /\ \E pattern \in RaisePatterns : get(pattern, NewHandler("get"))
    \/ GroupReturn
    \/ GroupRaise
    \/ \E request \in ScopeRequests : DispatchStart(1, request)
    \/ \E v \in HandlerValues(1) : Complete(1, v)
    \/ DispatchEnd(1)

SpecRaise == InitScope /\ [][NextRaise]_vars

----------------------------------------------------------------------------
(* SpecPipeline: one path and one method; middlewares come from use(),     *)
(* from groups and from addRoute(); every function may return or raise,   *)
(* and a middleware may invoke next, once, with or without a Context of    *)
(* its own; either error handler.                                          *)

PipeGroupInputs ==
    [prefix : {Undefined}, domain : {Null},
     middleware : {One(Fn("group", nGroup + 1))}]

PipeRouteInputs ==
    [method : {One(GET)}, pattern : {StrPattern(<<"/", "u">>)},
     middleware : {Null, One(Fn("route", nRoute + 1))}]

PipeRequests ==
    [method : {GET, POST}, hostname : {"a.test"}, pathname : {<<"/", "u">>}]

PipeOps == nUse + nGroup + nRoute

InitPipeline == InitWith({"default", "custom"}, {1})

NextPipeline ==
    \/ /\ Quiescent
       /\ PipeOps < MaxPipeOps
       /\ Use(<<Fn("use", nUse + 1)>>)
    \/ /\ Quiescent
       /\ PipeOps < MaxPipeOps
       /\ \E params \in PipeGroupInputs : GroupEnter(params)
    \/ /\ Quiescent
       /\ PipeOps < MaxPipeOps
       /\ \E route \in PipeRouteInputs : AddRoute(route, NewHandler("addRoute"))
    \/ GroupReturn
    \/ \E request \in PipeRequests : DispatchStart(1, request)
    \/ \E replace \in BOOLEAN : FirstNext(1) /\ CallNext(1, replace)
    \/ \E v \in Completions(1) : Complete(1, v)
    \/ DispatchEnd(1)

SpecPipeline == InitPipeline /\ [][NextPipeline]_vars

----------------------------------------------------------------------------
(* SpecAgain: one path and one method; middlewares come from use() and     *)
(* from addRoute(); a middleware may invoke next again after next has      *)
(* returned or raised; handlers answer or fail, middlewares answer or end  *)
(* with what next gave them; the default error handler.                    *)

AgainRouteInputs ==
    [method : {One(GET)}, pattern : {StrPattern(<<"/", "u">>)},
     middleware : {Null, One(Fn("route", nRoute + 1))}]

AgainRequests ==
    [method : {GET}, hostname : {"a.test"}, pathname : {<<"/", "u">>}]

\* A function answers with a Response of its own or ends with what next
\* gave it; only handlers fail on their own.
AgainValues(d) ==
    {v \in Completions(d) :
       \/ v.type = "Response"
       \/ v.type = "Error" /\ (v = Top(d).got \/ v.of = disp[d].entry.handler)}

AgainOps == nUse + nRoute

InitAgain == InitWith({"default"}, {1})

NextAgain ==
    \/ /\ Quiescent
       /\ AgainOps < MaxAgainOps
       /\ Use(<<Fn("use", nUse + 1)>>)
    \/ /\ Quiescent
       /\ AgainOps < MaxAgainOps
       /\ \E route \in AgainRouteInputs : AddRoute(route, NewHandler("addRoute"))
    \/ \E request \in AgainRequests : DispatchStart(1, request)
    \/ CallNext(1, FALSE)
    \/ \E v \in AgainValues(1) : Complete(1, v)
    \/ DispatchEnd(1)

SpecAgain == InitAgain /\ [][NextAgain]_vars

----------------------------------------------------------------------------
(* SpecConcurrent: several dispatch calls in flight at once on a router    *)
(* with global middlewares and routes on two paths; every function is      *)
(* async, so the calls interleave at every invocation, next() and return;  *)
(* middlewares invoke next at most once; the default error handler.        *)

ConcPatterns == {StrPattern(<<"/", "u">>), StrPattern(<<"/", "*">>)}

ConcRequests ==
    [method : {GET}, hostname : {"a.test"},
     pathname : {<<"/", "u">>, <<"/", "w">>}]

\* A handler answers or fails; a middleware ends with what next gave it.
ConcValues(d) ==
    {v \in Completions(d) :
       IF Top(d).pos > Len(disp[d].entry.middlewares)
       THEN v.of = disp[d].entry.handler /\ v.text \in {"body", "failure"}
       ELSE v = Top(d).got}

InitConcurrent == InitWith({"default"}, 1..MaxInFlight)

NextConcurrent ==
    \/ /\ Quiescent
       /\ nUse + nRoute < MaxConcOps
       /\ Use(<<Fn("use", nUse + 1)>>)
    \/ /\ Quiescent
       /\ nUse + nRoute < MaxConcOps
       /\ \E pattern \in ConcPatterns : get(pattern, NewHandler("get"))
    \/ \E d \in DOMAIN disp, request \in ConcRequests : DispatchStart(d, request)
    \/ \E d \in DOMAIN disp : FirstNext(d) /\ CallNext(d, FALSE)
    \/ \E d \in DOMAIN disp : \E v \in ConcValues(d) : Complete(d, v)
    \/ \E d \in DOMAIN disp : DispatchEnd(d)

SpecConcurrent == InitConcurrent /\ [][NextConcurrent]_vars

----------------------------------------------------------------------------
(* SpecCors: a router with the cors middleware installed by use() before   *)
(* its routes; requests with and without the headers cors reads; handlers  *)
(* that answer, with or without CORS headers of their own, or fail; the    *)
(* default error handler.                                                  *)

EXAMPLE == "https://example.com"
X_A == <<"X", "-", "A">>
X_B == <<"X", "-", "B">>
PURGE == <<"P", "U", "R", "G", "E">>

\* The options that bear on a preflight response only: left out, or set.
PreflightOptionInputs ==
    {[allowMethods |-> Null, allowHeaders |-> Null, maxAge |-> Null,
      allowPrivateNetwork |-> FALSE],
     [allowMethods |-> Many(<<PURGE, GET, PURGE>>),
      allowHeaders |-> Many(<<X_A>>), maxAge |-> One(123),
      allowPrivateNetwork |-> TRUE]}

CorsOptionInputs ==
    {[preflightContinue |-> c, allowOrigin |-> o, allowCredentials |-> a,
      exposeHeaders |-> x, allowMethods |-> p.allowMethods,
      allowHeaders |-> p.allowHeaders, maxAge |-> p.maxAge,
      allowPrivateNetwork |-> p.allowPrivateNetwork] :
       c \in BOOLEAN, o \in {Null, Many(<<>>), Many(<<EXAMPLE, EXAMPLE>>)},
       a \in BOOLEAN, x \in {Null, Many(<<X_A, X_B>>)},
       p \in PreflightOptionInputs}

\* The request headers that bear on a preflight response only.
PreflightHeaderInputs ==
    {[requestHeaders |-> Absent, requestPrivateNetwork |-> Absent],
     [requestHeaders |-> Value(Join(<<X_A, X_B>>, <<",">>)),
      requestPrivateNetwork |-> Value("true")]}

CorsRequests ==
    {[method |-> m, hostname |-> "a.test", pathname |-> <<"/", "u">>,
      headers |-> [origin |-> o, requestMethod |-> r,
                   requestHeaders |-> p.requestHeaders,
                   requestPrivateNetwork |-> p.requestPrivateNetwork]] :
       m \in {GET, OPTIONS, <<"o", "p", "t", "i", "o", "n", "s">>},
       o \in {Absent, Value(EXAMPLE), Value("https://other.test"), Value("*")},
       r \in {Absent, Value(""), Value("POST")},
       p \in PreflightHeaderInputs}

InitCors == InitWith({"default"}, {1})

NextCors ==
    \/ /\ Quiescent
       /\ nUse = 0
       /\ nUse + nRoute < MaxCorsOps
       /\ \E opts \in CorsOptionInputs : Use(<<Cors(opts)>>)
    \/ /\ Quiescent
       /\ nUse + nRoute < MaxCorsOps
       /\ all(StrPattern(<<"/", "*">>), Fn("resource", nRoute + 1))
    \/ \E request \in CorsRequests : DispatchStart(1, request)
    \/ /\ Running(1)
       /\ IsCors(FnAt(disp[1].entry, Top(1).pos))
       /\ corsInvokesNext(FnAt(disp[1].entry, Top(1).pos), Top(1).ctx.request)
       /\ FirstNext(1)
       /\ CallNext(1, FALSE)
    \/ \E v \in Completions(1) : Complete(1, v)
    \/ DispatchEnd(1)

SpecCors == InitCors /\ [][NextCors]_vars

----------------------------------------------------------------------------
(* SpecMidFlight: use(), group() and get() are called at any time, also    *)
(* while a dispatch is suspended in a middleware or a handler; a group()   *)
(* call runs to its end without yielding; routes on two paths; middlewares *)
(* invoke next at most once; the default error handler.                    *)

MidGroupInputs ==
    [prefix : {Undefined}, domain : {Null},
     middleware : {One(Fn("group", nGroup + 1))}]

MidPatterns == {StrPattern(<<"/", "u">>), StrPattern(<<"/", "*">>)}

MidRequests ==
    [method : {GET}, hostname : {"a.test"},
     pathname : {<<"/", "u">>, <<"/", "w">>}]

MidOps == nUse + nGroup + nRoute

InitMidFlight == InitWith({"default"}, {1})

NextMidFlight ==
    \/ /\ MidOps < MaxMidOps
       /\ Use(<<Fn("use", nUse + 1)>>)
    \/ /\ MidOps < MaxMidOps
       /\ calls = <<>>
       /\ \E params \in MidGroupInputs : GroupEnter(params)
    \/ /\ MidOps < MaxMidOps
       /\ \E pattern \in MidPatterns : get(pattern, NewHandler("get"))
    \/ GroupReturn
    \/ \E request \in MidRequests : DispatchStart(1, request)
    \/ FirstNext(1) /\ CallNext(1, FALSE)
    \/ \E v \in ConcValues(1) : Complete(1, v)
    \/ DispatchEnd(1)

SpecMidFlight == InitMidFlight /\ [][NextMidFlight]_vars

----------------------------------------------------------------------------
(* SpecMethods: one path and one host; routes registered at top level by   *)
(* every sugar registrar and by addRoute() with method tokens as the       *)
(* application may write them; requests whose method is written in any     *)
(* letter case; either error handler.                                      *)

TRACE == <<"T", "R", "A", "C", "E">>

\* RouteParams.method as written: lower case, mixed case with white space
\* around it, or an array of such tokens.
MethodInputs ==
    {One(<<"g", "e", "t">>),
     One(<<" ", "G", "e", "t", " ">>),
     Many(<<<<"p", "o", "s", "t">>, <<" ", "P", "U", "T">>>>)}

\* request.method: the platform folds some tokens to upper case and leaves
\* others as written.
MethodTokens ==
    {GET, <<"g", "e", "t">>, <<"G", "e", "t">>, HEAD, POST,
     <<"p", "o", "s", "t">>, PUT, DELETE, OPTIONS, PATCH,
     <<"p", "a", "t", "c", "h">>, TRACE}

MethodRequests ==
    [method : MethodTokens, hostname : {"a.test"}, pathname : {<<"/", "u">>}]

MethodPattern == StrPattern(<<"/", "u">>)

InitMethods == InitWith({"default", "custom"}, {1})

NextMethods ==
    \/ /\ Quiescent
       /\ nRoute < MaxMethodOps
       /\ \/ get(MethodPattern, NewHandler("get"))
          \/ head(MethodPattern, NewHandler("head"))
          \/ post(MethodPattern, NewHandler("post"))
          \/ put(MethodPattern, NewHandler("put"))
          \/ del(MethodPattern, NewHandler("del"))
          \/ options(MethodPattern, NewHandler("options"))
          \/ patch(MethodPattern, NewHandler("patch"))
          \/ all(MethodPattern, NewHandler("all"))
    \/ /\ Quiescent
       /\ nRoute < MaxMethodOps
       /\ \E method \in MethodInputs :
            AddRoute([method |-> method, pattern |-> MethodPattern,
                      middleware |-> Null], NewHandler("addRoute"))
    \/ \E request \in MethodRequests : DispatchStart(1, request)
    \/ \E v \in HandlerValues(1) : Complete(1, v)
    \/ DispatchEnd(1)

SpecMethods == InitMethods /\ [][NextMethods]_vars

----------------------------------------------------------------------------
(* Properties of route selection.                                          *)

\* The entries of the request's method list, as the table stands, whose
\* pattern matches the request's URL.
MatchingEntries(request) ==
    LET list == RoutesOf(routes, request)
    IN {list[i] : i \in {j \in 1..Len(list) :
          Matches(list[j].pattern, request.hostname, request.pathname)}}

InFlight(d) == disp[d].status # "idle"

\* The handlers a dispatch has invoked so far.
HandlersRun(d) ==
    {disp[d].started[i].fn : i \in {j \in 1..Len(disp[d].started) :
        disp[d].started[j].fn.src \notin {"use", "group", "route"}}}

\* C1: of the entries of the request's method whose patterns match the
\* request, dispatch runs the one registered first (the handler of the
\* earliest registrar call) and no handler of a later one.
C1_FirstRegisteredWins ==
    \A d \in DOMAIN disp :
      (InFlight(d) /\ MatchingEntries(disp[d].request) # {}) =>
        /\ disp[d].index # 0
        /\ disp[d].started # <<>>
        /\ \A e \in MatchingEntries(disp[d].request) :
             /\ disp[d].entry.handler.n <= e.handler.n
             /\ \A h \in HandlersRun(d) : h.n <= e.handler.n

\* Two entries with different handlers match the request of a dispatch
\* that has run a handler.
C1_Witness ==
    \E d \in DOMAIN disp :
      /\ HandlersRun(d) # {}
      /\ \E e1, e2 \in MatchingEntries(disp[d].request) :
           e1.handler # e2.handler /\ e1.pattern # e2.pattern

AsGET(request) == [request EXCEPT !.method = GET]

GETEntry(request) ==
    RoutesOf(routes, AsGET(request))[Select(routes, AsGET(request))]

\* No entry that head() registered matches the request.
OnlyGet(request) ==
    \A e \in MatchingEntries(request) : e.handler.src # "head"

\* C10: a HEAD request for a URL that matches a route registered by get(),
\* and no route registered by head(), is dispatched to the handler and the
\* middleware chain the GET request for that URL selects; a GET request is
\* never dispatched to a handler that head() registered.
C10_GetImpliesHead ==
    \A d \in DOMAIN disp :
      /\ ( /\ InFlight(d)
           /\ disp[d].request.method = HEAD
           /\ Select(routes, AsGET(disp[d].request)) # 0
           /\ OnlyGet(disp[d].request) ) =>
             /\ disp[d].index # 0
             /\ disp[d].entry.handler = GETEntry(disp[d].request).handler
             /\ disp[d].entry.middlewares = GETEntry(disp[d].request).middlewares
             /\ disp[d].entry.handler.src = "get"
      /\ (InFlight(d) /\ disp[d].request.method = GET) =>
             /\ \A h \in HandlersRun(d) : h.src # "head"
             /\ disp[d].index # 0 => disp[d].entry.handler.src = "get"
             /\ (\A e \in MatchingEntries([disp[d].request EXCEPT !.method = HEAD]) :
                    e.handler.src = "head") => disp[d].index = 0

\* A HEAD request has run, behind a middleware, the handler of a route that
\* only get() registered.
C10_Witness ==
    \E d \in DOMAIN disp :
      /\ disp[d].request.method = HEAD
      /\ OnlyGet(disp[d].request)
      /\ disp[d].entry.middlewares # <<>>
      /\ \E h \in HandlersRun(d) : h.src = "get"


----------------------------------------------------------------------------
(* Properties of scopes.                                                   *)

Range(seq) == {seq[i] : i \in 1..Len(seq)}

RECURSIVE PathOf(_)
PathOf(segments) ==
    IF segments = <<>> THEN <<>>
    ELSE <<"/">> \o Head(segments) \o PathOf(Tail(segments))

\* The fragments' segments joined with exactly one slash before each.
ExpectedPath(segments) == IF segments = <<>> THEN <<"/">> ELSE PathOf(segments)

\* C3: a route written inside groups that name the domains D, D not empty,
\* has its handler invoked only for requests whose hostname is in D, and a
\* request for a hostname in D and the route's path is matched, by that
\* route or one registered before it.
C3_DomainConfined ==
    \A d \in DOMAIN disp : \A i \in 1..Len(declared) :
      LET dec == declared[i]
          request == disp[d].request
      IN dec.domains # <<>> =>
           /\ dec.handler \in HandlersRun(d) =>
                request.hostname \in Range(dec.domains)
           /\ ( /\ InFlight(d)
                /\ request.hostname \in Range(dec.domains)
                /\ request.pathname = ExpectedPath(dec.segments) ) =>
                (disp[d].index # 0 /\ disp[d].entry.handler.n <= dec.handler.n)

\* C4: a route written with a string path inside nested group prefixes has
\* its handler invoked only for the path that joins the prefixes and the
\* route's path, root to leaf, one slash between fragments; and a request
\* for that path is matched, by that route or one registered before it.
C4_JoinedPath ==
    \A d \in DOMAIN disp : \A i \in 1..Len(declared) :
      LET dec == declared[i]
          request == disp[d].request
      IN (dec.kind = "string" /\ dec.depth > 0) =>
           /\ dec.handler \in HandlersRun(d) =>
                request.pathname = ExpectedPath(dec.segments)
           /\ ( /\ InFlight(d)
                /\ dec.domains = <<>> \/ request.hostname \in Range(dec.domains)
                /\ request.pathname = ExpectedPath(dec.segments) ) =>
                (disp[d].index # 0 /\ disp[d].entry.handler.n <= dec.handler.n)

\* C7: when the callback of a group() call raises, the scope stack is, as
\* the exception leaves group(), what it was before that call.
C7_FramePoppedOnRaise ==
    [][GroupRaise => groups' = Last(calls).saved]_vars

----------------------------------------------------------------------------
(* Properties of the pipeline.                                             *)

\* C2: whatever the matched functions and the error handler do, a call of
\* dispatch is never rejected.
C2_DispatchResolves ==
    \A d \in DOMAIN disp : disp[d].status # "rejected"

\* The declaration of the route whose handler is fn.
DeclOf(fn) == CHOOSE dec \in Range(declared) : dec.handler = fn

\* The middlewares of the first k use() calls, in call order.
UsesChain(k) == [i \in 1..k |-> Fn("use", i)]

\* The chain a route was written with: global, then scope, then its own.
DeclaredChain(dec) == UsesChain(dec.uses) \o dec.scoped \o dec.own

AllEntries ==
    UNION {Range(routes[m]) : m \in DOMAIN routes}

\* C5: every entry stores the global middlewares in use() order, then those
\* of the enclosing groups, then the route's own; in a dispatch where no
\* middleware invokes next twice the functions start in that order, the
\* handler last, and finish in the reverse order.
C5_ChainOrder ==
    /\ \A e \in AllEntries : e.middlewares = DeclaredChain(DeclOf(e.handler))
    /\ \A d \in DOMAIN disp :
         (disp[d].index # 0 /\ disp[d].renexts = 0) =>
           LET started == disp[d].started
               finished == disp[d].finished
               full == DeclaredChain(DeclOf(disp[d].entry.handler))
                         \o <<disp[d].entry.handler>>
           IN /\ Len(started) <= Len(full)
              /\ \A j \in 1..Len(started) :
                   started[j].fn = full[j] /\ started[j].pos = j
              /\ Len(finished) <= Len(started)
              /\ \A k \in 1..Len(finished) :
                   finished[k].fn = started[Len(started) - k + 1].fn

\* A dispatch has run a global, a group and a route middleware and the
\* handler, each middleware invoking next once, and all have returned.
C5_Witness ==
    \E d \in DOMAIN disp :
      /\ disp[d].status = "resolved"
      /\ disp[d].renexts = 0
      /\ Len(disp[d].started) = 4
      /\ Len(disp[d].finished) = 4
      /\ disp[d].started[1].fn.src = "use"
      /\ disp[d].started[2].fn.src = "group"
      /\ disp[d].started[3].fn.src = "route"
      /\ disp[d].finished[1].fn = disp[d].entry.handler
      /\ disp[d].finished[4].fn.src = "use"

\* The completions of a dispatch in which a middleware returned a Response
\* without having invoked next.
ShortCircuits(d) ==
    {k \in 1..Len(disp[d].finished) :
       /\ disp[d].finished[k].pos <= Len(disp[d].entry.middlewares)
       /\ disp[d].finished[k].nexts = 0
       /\ IsResponse(disp[d].finished[k].value)}

\* Nothing after position i has started, and the completions after the
\* k-th are those of the positions below i, innermost first; the first
\* middleware's Response is the result of dispatch.
StopsAt(d, k) ==
    LET r == disp[d].finished[k]
    IN /\ \A j \in 1..Len(disp[d].started) : disp[d].started[j].pos <= r.pos
       /\ \A j \in (k + 1)..Len(disp[d].finished) :
            disp[d].finished[j].pos = r.pos - (j - k)
       /\ r.pos = 1 => (disp[d].status = "resolved" /\ disp[d].result = r.value)

\* No middleware at a position below i has invoked next more than once.
NoReNextBelow(d, i) ==
    \A p \in 2..i :
      Cardinality({j \in 1..Len(disp[d].started) : disp[d].started[j].pos = p}) <= 1

\* C6 as stated: once the middleware at position i has returned a Response
\* without invoking next, no function after position i is ever run in that
\* dispatch and the Response goes back through the positions below i.
C6_ShortCircuit ==
    \A d \in DOMAIN disp : \A k \in ShortCircuits(d) : StopsAt(d, k)

\* C6, amended: the same, in a dispatch where no middleware at a position
\* below i invokes next more than once.
C6_ShortCircuitOnce ==
    \A d \in DOMAIN disp : \A k \in ShortCircuits(d) :
      NoReNextBelow(d, disp[d].finished[k].pos) => StopsAt(d, k)

\* The second of three middlewares answered 401 without invoking next, the
\* first returned that Response, and dispatch resolved to it.
C6_Witness ==
    \E d \in DOMAIN disp :
      /\ disp[d].status = "resolved"
      /\ Len(disp[d].entry.middlewares) = 3
      /\ disp[d].renexts = 0
      /\ \E k \in ShortCircuits(d) : disp[d].finished[k].pos = 2
      /\ disp[d].result = Response("Unauthorized", 401, disp[d].entry.middlewares[2])
      /\ Len(disp[d].started) = 2

\* C9: the chain of an entry holds the middlewares of exactly the use()
\* calls made before its registration, in front of every group and route
\* middleware, whatever use() calls follow; a dispatch runs no middleware
\* of a use() call made after the registration of the entry it selected.
C9_ChainFrozen ==
    /\ \A e \in AllEntries :
         LET uses == DeclOf(e.handler).uses
             chain == e.middlewares
         IN /\ uses <= Len(chain)
            /\ \A j \in 1..Len(chain) :
                 /\ (chain[j].src = "use") <=> (j <= uses)
                 /\ j <= uses => chain[j] = Fn("use", j)
    /\ \A d \in DOMAIN disp : \A j \in 1..Len(disp[d].started) :
         disp[d].started[j].fn.src = "use" =>
           disp[d].started[j].fn.n <= DeclOf(disp[d].entry.handler).uses

\* A dispatch has run the handler of an entry registered before a use()
\* call, while the table holds an entry registered after it whose chain
\* has the global middleware in front of a route middleware.
C9_Witness ==
    \E d \in DOMAIN disp :
      /\ disp[d].status = "resolved"
      /\ disp[d].entry.handler \in HandlersRun(d)
      /\ DeclOf(disp[d].entry.handler).uses < nUse
      /\ \E e \in AllEntries :
           /\ DeclOf(e.handler).uses = nUse
           /\ Len(e.middlewares) > nUse

----------------------------------------------------------------------------
(* Properties of method matching.                                          *)

\* The position of a letter in the alphabet, 0 for any other character.
LetterIndex(c) ==
    IF \E i \in 1..26 : c \in {LowerLetters[i], UpperLetters[i]}
    THEN CHOOSE i \in 1..26 : c \in {LowerLetters[i], UpperLetters[i]}
    ELSE 0

\* Two tokens that differ at most in the case of their letters.
SameButCase(m1, m2) ==
    /\ Len(m1) = Len(m2)
    /\ \A i \in 1..Len(m1) :
         \/ m1[i] = m2[i]
         \/ LetterIndex(m1[i]) # 0 /\ LetterIndex(m1[i]) = LetterIndex(m2[i])

SameURL(r1, r2) == r1.hostname = r2.hostname /\ r1.pathname = r2.pathname

\* A token without white space around it.
Bare(m) == m # <<>> /\ Head(m) # " " /\ Last(m) # " "

\* The token between the white space around it.
Inner(m) ==
    LET inside == {i \in 1..Len(m) : m[i] # " "}
        lo == CHOOSE i \in inside : \A j \in inside : i <= j
        hi == CHOOSE i \in inside : \A j \in inside : j <= i
    IN IF inside = {} THEN <<>> ELSE SubSeq(m, lo, hi)

\* C11: the table's keys are trimmed and upper case; two requests for one
\* URL whose methods differ only in letter case select the same entry; a
\* dispatch selects what any such request selects, and a route registered
\* under a method token, however written, is found by a request whose
\* method is that token in any letter case.
C11_MethodCaseInsensitive ==
    /\ \A m \in DOMAIN routes :
         Bare(m) /\ \A i \in 1..Len(m) : m[i] \notin DOMAIN UpperOf
    /\ \A r1, r2 \in MethodRequests :
         (SameURL(r1, r2) /\ SameButCase(r1.method, r2.method)) =>
           /\ RoutesOf(routes, r1) = RoutesOf(routes, r2)
           /\ Select(routes, r1) = Select(routes, r2)
    /\ \A d \in DOMAIN disp : InFlight(d) =>
         /\ \A r \in MethodRequests :
              (SameURL(r, disp[d].request)
                 /\ SameButCase(r.method, disp[d].request.method)) =>
                /\ disp[d].index = Select(routes, r)
                /\ disp[d].index # 0 =>
                     disp[d].entry.handler = RoutesOf(routes, r)[disp[d].index].handler
         /\ \A i \in 1..Len(declared) : \A j \in 1..Len(declared[i].methods) :
              SameButCase(Inner(declared[i].methods[j]), disp[d].request.method) =>
                (disp[d].index # 0
                   /\ disp[d].entry.handler.n <= declared[i].handler.n)

\* A request whose method is written in lower case has run the handler of
\* a route registered under the same method written in mixed case with
\* white space around it.
C11_Witness ==
    \E d \in DOMAIN disp :
      /\ disp[d].request.method = <<"g", "e", "t">>
      /\ disp[d].status = "resolved"
      /\ disp[d].entry.handler \in HandlersRun(d)
      /\ \E i \in 1..Len(declared) :
           /\ declared[i].handler = disp[d].entry.handler
           /\ declared[i].methods = <<<<" ", "G", "e", "t", " ">>>>

\* The registrars that take a pattern and a handler only.
SugarRegistrars ==
    {"get", "head", "post", "put", "del", "options", "patch", "all"}

\* The methods each of them stands for.
MethodsOf(registrar) ==
    CASE registrar = "get" -> {GET, HEAD}
      [] registrar = "head" -> {HEAD}
      [] registrar = "post" -> {POST}
      [] registrar = "put" -> {PUT}
      [] registrar = "del" -> {DELETE}
      [] registrar = "options" -> {OPTIONS}
      [] registrar = "patch" -> {PATCH}
      [] registrar = "all" -> {GET, HEAD, POST, PUT, DELETE, OPTIONS, PATCH}

\* The positions of the entries of method m that hold handler fn.
EntriesOf(m, fn) ==
    IF m \in DOMAIN routes
    THEN {i \in 1..Len(routes[m]) : routes[m][i].handler = fn}
    ELSE {}

----------------------------------------------------------------------------
(* Properties of the expansion of one declaration.                         *)

LenOf(rs, m) == IF m \in DOMAIN rs THEN Len(rs[m]) ELSE 0

\* The entries a step appended to the list of method m.
Appended(m) ==
    {routes'[m][i] : i \in (LenOf(routes, m) + 1)..LenOf(routes', m)}

NoDuplicates(seq) == Cardinality(Range(seq)) = Len(seq)

\* C13: a registrar call made inside groups that name the hostnames H, no
\* hostname twice, appends to the list of each of its methods one entry
\* per hostname of H, or one entry for any host when H is empty, and
\* appends nothing to the list of any other method.
C13_OneEntryPerHostname ==
    [][ nRoute' = nRoute + 1 =>
          LET dec == Last(declared')
              H == Range(dec.domains)
              M == {toUpperCase(trim(dec.methods[j])) : j \in 1..Len(dec.methods)}
          IN NoDuplicates(dec.domains) =>
               \A m \in DOMAIN routes' :
                 IF m \in M
                 THEN /\ Cardinality(Appended(m)) = LenOf(routes', m) - LenOf(routes, m)
                      /\ {e.pattern.hostname : e \in Appended(m)}
                           = (IF H = {} THEN {"*"} ELSE H)
                      /\ LenOf(routes', m) - LenOf(routes, m)
                           = (IF H = {} THEN 1 ELSE Cardinality(H))
                 ELSE LenOf(routes', m) = LenOf(routes, m) ]_vars

\* C14: the entries of one method's list that one declaration expanded to
\* hold the same handler, equal middlewares and one and the same chain
\* array.
C14_SharedChainObject ==
    \A m \in DOMAIN routes : \A i, j \in 1..Len(routes[m]) :
      routes[m][i].handler = routes[m][j].handler =>
        /\ routes[m][i].middlewares = routes[m][j].middlewares
        /\ routes[m][i].chain = routes[m][j].chain

----------------------------------------------------------------------------
(* Properties of the error boundary.                                       *)

IsSettled(d) == disp[d].status \in {"resolved", "rejected"}

\* The value the first function of the pipeline returned or raised to
\* dispatch, once it has.
Outermost(d) == Last(disp[d].finished)

ReachedDispatch(d) ==
    IsSettled(d) /\ disp[d].finished # <<>> /\ Outermost(d).pos = 1

\* C15: the error handler is called at most once in a dispatch, and once,
\* with the failure itself, when the pipeline of the selected entry has
\* raised; nothing runs after that call; the pipeline of the selected
\* entry is started once, and every function a dispatch runs belongs to
\* the first matching entry.
C15_ErrorHandledOnce ==
    \A d \in DOMAIN disp :
      /\ disp[d].handled <= 1
      /\ disp[d].handled = 1 => (IsSettled(d) /\ disp[d].stack = <<>>)
      /\ (ReachedDispatch(d) /\ IsError(Outermost(d).value)) =>
           (disp[d].handled = 1 /\ disp[d].caught = Outermost(d).value)
      /\ disp[d].index # 0 =>
           /\ disp[d].index = Select(routes, disp[d].request)
           /\ Cardinality({j \in 1..Len(disp[d].started) :
                             disp[d].started[j].pos = 1}) = 1
           /\ \A j \in 1..Len(disp[d].started) :
                disp[d].started[j].fn \in
                  Range(disp[d].entry.middlewares) \cup {disp[d].entry.handler}

\* The handler of the first of two matching entries raised behind a
\* middleware that let the failure through, and the dispatch is settled.
C15_Witness ==
    \E d \in DOMAIN disp :
      /\ IsSettled(d)
      /\ disp[d].handled = 1
      /\ disp[d].entry.middlewares # <<>>
      /\ IsError(disp[d].caught)
      /\ disp[d].caught.of = disp[d].entry.handler
      /\ \E e \in MatchingEntries(disp[d].request) :
           e.handler # disp[d].entry.handler

\* What a dispatch raised to its own catch block: RouteNotFoundError when
\* no entry matched, otherwise the failure the pipeline raised.
Raised(d) ==
    IF disp[d].index = 0 THEN RouteNotFoundError ELSE Outermost(d).value

HasRaised(d) ==
    /\ IsSettled(d)
    /\ disp[d].index = 0 \/ (ReachedDispatch(d) /\ IsError(Outermost(d).value))

\* C16: on a router constructed with an errorHandler, whatever a dispatch
\* raises is given as it is to that handler, once; the outcome is the
\* handler's own, never the default mapping, and the Response the handler
\* returns is the Response of dispatch.
C16_CustomHandlerDecides ==
    \A d \in DOMAIN disp :
      (errorHandler = "custom" /\ HasRaised(d)) =>
        /\ disp[d].handled = 1
        /\ disp[d].caught = Raised(d)
        /\ disp[d].result \in CustomOutcomes(Raised(d))
        /\ disp[d].result.of = CustomErrorHandlerFn
        /\ disp[d].result # defaultErrorHandler(Raised(d))
        /\ IsResponse(disp[d].result) => disp[d].status = "resolved"

\* The handler of a route raised a ServerError behind a middleware and
\* the dispatch resolved to the Response the configured handler made of it.
C16_Witness ==
    \E d \in DOMAIN disp :
      /\ errorHandler = "custom"
      /\ disp[d].status = "resolved"
      /\ disp[d].index # 0
      /\ disp[d].entry.middlewares # <<>>
      /\ disp[d].caught = ServerError("teapot", 418, disp[d].entry.handler)
      /\ disp[d].result = Response("teapot", 599, CustomErrorHandlerFn)

\* C17: with the default error handler, a dispatch that raises a
\* ServerError constructed with a status resolves to a Response with that
\* status whose body is the error's message.
C17_ServerErrorEchoed ==
    \A d \in DOMAIN disp :
      ( /\ errorHandler = "default"
        /\ HasRaised(d)
        /\ Raised(d).type = "ServerError"
        /\ Raised(d).status # 0 ) =>
          /\ disp[d].status = "resolved"
          /\ IsResponse(disp[d].result)
          /\ disp[d].result.status = Raised(d).status
          /\ disp[d].result.text = Raised(d).text

\* C18: with the default error handler, a dispatch that raises a failure
\* that is neither a ServerError nor a RouteNotFoundError resolves to the
\* Response 500 "Internal Server Error", whatever the failure's message.
C18_InternalServerError ==
    \A d \in DOMAIN disp :
      ( /\ errorHandler = "default"
        /\ HasRaised(d)
        /\ Raised(d).type \notin {"ServerError", "RouteNotFoundError"} ) =>
          /\ disp[d].status = "resolved"
          /\ disp[d].result = Response("Internal Server Error", 500, RouterFn)
          /\ disp[d].result.text # Raised(d).text

\* A global middleware raised a failure of its own and the dispatch
\* resolved to the 500 Response.
C18_Witness ==
    \E d \in DOMAIN disp :
      /\ errorHandler = "default"
      /\ disp[d].status = "resolved"
      /\ disp[d].handled = 1
      /\ disp[d].caught.type = "Error"
      /\ disp[d].caught.of.src = "use"
      /\ disp[d].result.status = 500

\* C19: what a function below the first returns or raises goes to the
\* middleware that invoked next and to nobody else: the dispatch stays
\* pending, the error handler is not called, and that middleware resumes
\* holding the value; when the first middleware then returns a Response,
\* dispatch resolves to it without a call of the error handler.
C19_UpstreamRecovers ==
    \A d \in DOMAIN disp :
      /\ (disp[d].finished # <<>> /\ Outermost(d).pos > 1) =>
           /\ disp[d].status = "pending"
           /\ disp[d].handled = 0
           /\ Len(disp[d].stack) >= Outermost(d).pos - 1
           /\ Len(disp[d].stack) = Outermost(d).pos - 1 =>
                Top(d).got = Outermost(d).value
      /\ (ReachedDispatch(d) /\ IsResponse(Outermost(d).value)) =>
           /\ disp[d].status = "resolved"
           /\ disp[d].handled = 0
           /\ disp[d].result = Outermost(d).value

\* The handler raised, the middleware before it returned a Response of its
\* own instead, the first middleware returned that Response, and dispatch
\* resolved to it without the error handler.
C19_Witness ==
    \E d \in DOMAIN disp :
      /\ disp[d].status = "resolved"
      /\ disp[d].handled = 0
      /\ disp[d].renexts = 0
      /\ Len(disp[d].finished) = 3
      /\ disp[d].finished[1].fn = disp[d].entry.handler
      /\ IsError(disp[d].finished[1].value)
      /\ disp[d].finished[2].value
           = Response("Unauthorized", 401, disp[d].finished[2].fn)
      /\ disp[d].result = disp[d].finished[2].value

----------------------------------------------------------------------------
(* Properties of the Context.                                              *)

\* The Context the function at position i of the stack is to receive: the
\* one dispatch built when i is first, else the one the function below it
\* passed to next, or, when that passed none, the one that function is to
\* receive itself.
RECURSIVE ExpectedCtx(_, _)
ExpectedCtx(dsp, i) ==
    IF i = 1 THEN DispatchContext(dsp.entry.pattern, dsp.request)
    ELSE IF dsp.stack[i - 1].sent # NoValue THEN dsp.stack[i - 1].sent
    ELSE ExpectedCtx(dsp, i - 1)

\* C20: the first function of a pipeline receives the Context dispatch
\* built; every other function receives the Context of the nearest
\* middleware before it that passed one to next, and the Context dispatch
\* built when none did; a middleware that passes none hands on the one it
\* received.
C20_ContextPassing ==
    \A d \in DOMAIN disp : \A i \in 1..Len(disp[d].stack) :
      LET stack == disp[d].stack
      IN /\ stack[i].ctx = ExpectedCtx(disp[d], i)
         /\ i = 1 => stack[i].ctx = DispatchContext(disp[d].entry.pattern,
                                                    disp[d].request)
         /\ (i > 1 /\ stack[i - 1].sent = NoValue) => stack[i].ctx = stack[i - 1].ctx
         /\ (i > 1 /\ stack[i - 1].sent # NoValue) =>
              stack[i].ctx = Context(FnAt(disp[d].entry, i - 1))

\* The handler runs behind three middlewares: the first passed a Context
\* of its own, the second and the third passed none, and the handler has
\* the Context of the first.
C20_Witness ==
    \E d \in DOMAIN disp :
      /\ disp[d].status = "pending"
      /\ Len(disp[d].entry.middlewares) = 3
      /\ Len(disp[d].stack) = 4
      /\ disp[d].stack[1].sent = Context(disp[d].entry.middlewares[1])
      /\ disp[d].stack[2].sent = NoValue
      /\ disp[d].stack[3].sent = NoValue
      /\ disp[d].stack[4].ctx = Context(disp[d].entry.middlewares[1])

----------------------------------------------------------------------------
(* Properties of repeated next.                                            *)

\* How often the function at position p of the chain has been invoked.
Starts(d, p) ==
    Cardinality({j \in 1..Len(disp[d].started) : disp[d].started[j].pos = p})

RECURSIVE NextsOfFinished(_, _)
\* The next() calls made by the activations at position p that have ended.
NextsOfFinished(finished, p) ==
    IF finished = <<>> THEN 0
    ELSE (IF Head(finished).pos = p THEN Head(finished).nexts ELSE 0)
           + NextsOfFinished(Tail(finished), p)

\* The next() calls made so far at position p, by the activations that
\* have ended and by the one that has not.
NextCalls(d, p) ==
    NextsOfFinished(disp[d].finished, p)
      + (IF p <= Len(disp[d].stack) THEN disp[d].stack[p].nexts ELSE 0)

\* C21: the function after position p is invoked once for every next()
\* call made at position p, however many one activation makes, each time
\* as a new activation at the position after p.
C21_NextNotGuarded ==
    \A d \in DOMAIN disp :
      disp[d].index # 0 =>
        /\ Starts(d, 1) = 1
        /\ \A p \in 1..Len(disp[d].entry.middlewares) :
             Starts(d, p + 1) = NextCalls(d, p)
        /\ \A i \in 1..Len(disp[d].stack) : disp[d].stack[i].pos = i

\* The first of two middlewares invoked next twice, the second invoked it
\* once each time, the handler ran twice, and the dispatch resolved.
C21_Witness ==
    \E d \in DOMAIN disp :
      /\ disp[d].status = "resolved"
      /\ Len(disp[d].entry.middlewares) = 2
      /\ Outermost(d).pos = 1
      /\ Outermost(d).nexts = 2
      /\ Starts(d, 2) = 2
      /\ Starts(d, 3) = 2
      /\ Len(disp[d].finished) = 5

----------------------------------------------------------------------------
(* Properties of dispatch as a reader of the router.                       *)

\* A step taken by a dispatch call: its start, a next(), a return or raise,
\* its settlement, or the release of its result.
DispatchStep == \E d \in DOMAIN disp : disp'[d] # disp[d]

\* C22: no step of dispatch changes the route table (the entries and their
\* middleware chains), the scope stack, the global middleware list or the
\* error handler, whether the call matches, finds no route or fails.
C22_DispatchReadsOnly ==
    [][DispatchStep => routerVars' = routerVars]_vars

\* A dispatch went through a middleware to a handler that failed, its
\* error was handled, and the entry it selected is in the route table as
\* it was selected.
C22_Witness ==
    \E d \in DOMAIN disp :
      /\ disp[d].status \in {"resolved", "rejected"}
      /\ disp[d].index # 0
      /\ Len(disp[d].entry.middlewares) >= 1
      /\ Len(disp[d].finished) >= 2
      /\ disp[d].caught # NoValue
      /\ LET entry == RoutesOf(routes, disp[d].request)[disp[d].index]
         IN /\ entry.pattern = disp[d].entry.pattern
            /\ entry.handler = disp[d].entry.handler
            /\ entry.middlewares = disp[d].entry.middlewares

----------------------------------------------------------------------------
(* Properties of dispatch calls in flight at once.                         *)

\* The dispatch calls that have started and not settled.
Pending == {d \in DOMAIN disp : disp[d].status = "pending"}

\* The entry a dispatch of the request selects when it runs alone.
AloneEntry(request) == RoutesOf(routes, request)[Select(routes, request)]

\* The call d can take a step whatever the other calls are doing: start
\* when it is free, invoke next, return or raise when one of its functions
\* runs, and hand over its result when it has settled.
CanProgress(d) ==
    /\ disp[d].status = "idle" =>
         ENABLED (\E request \in ConcRequests : DispatchStart(d, request))
    /\ disp[d].status = "pending" =>
         ENABLED (\/ FirstNext(d) /\ CallNext(d, FALSE)
                  \/ \E v \in ConcValues(d) : Complete(d, v))
    /\ disp[d].status \in {"resolved", "rejected"} => ENABLED DispatchEnd(d)

\* C23: every call in flight holds the Context dispatch made from its own
\* request and match and hands it, or what its own middlewares passed,
\* down its own chain; it has selected the entry it selects alone and has
\* invoked the functions of that entry's chain in order; and it can take
\* its next step whatever state the other calls are in.
C23_CallsIndependent ==
    \A d \in DOMAIN disp :
      /\ CanProgress(d)
      /\ d \in Pending =>
           LET dsp == disp[d]
               alone == AloneEntry(dsp.request)
           IN /\ dsp.index = Select(routes, dsp.request)
              /\ dsp.entry.pattern = alone.pattern
              /\ dsp.entry.handler = alone.handler
              /\ dsp.entry.middlewares = alone.middlewares
              /\ \A i \in 1..Len(dsp.stack) :
                   /\ dsp.stack[i].pos = i
                   /\ dsp.stack[i].ctx = ExpectedCtx(dsp, i)
                   /\ dsp.stack[i].ctx.by = RouterFn =>
                        /\ dsp.stack[i].ctx.request = dsp.request
                        /\ dsp.stack[i].ctx.match = Exec(dsp.entry.pattern,
                                                         dsp.request)
              /\ \A j \in 1..Len(dsp.started) :
                   dsp.started[j] = Started(alone, dsp.started[j].pos)
              /\ \A p \in 1..(Len(alone.middlewares) + 1) : Starts(d, p) <= 1

\* Two calls for different requests are in flight on different entries
\* behind the same middleware: one is suspended in its handler, the other
\* in the middleware, and each holds the Context of its own request.
C23_Witness ==
    \E d, e \in Pending :
      /\ d # e
      /\ disp[d].request # disp[e].request
      /\ disp[d].index # disp[e].index
      /\ Len(disp[d].entry.middlewares) = 1
      /\ Len(disp[d].stack) = 2
      /\ Len(disp[e].stack) = 1
      /\ disp[d].stack[2].ctx.request = disp[d].request
      /\ disp[e].stack[1].ctx.request = disp[e].request

----------------------------------------------------------------------------
(* Properties of the cors middleware.                                      *)

\* The activations of cors that have ended, in the dispatch call d.
CorsEnded(d) ==
    {disp[d].finished[j] : j \in {i \in 1..Len(disp[d].finished) :
                                   IsCors(disp[d].finished[i].fn)}}

\* The activations of cors that have not ended.
CorsActive(d) ==
    {f \in Range(disp[d].stack) : IsCors(FnAt(disp[d].entry, f.pos))}

\* The text 'GET,HEAD,PUT,PATCH,POST,DELETE'.
DefaultMethodsText ==
    <<"G", "E", "T", ",", "H", "E", "A", "D", ",", "P", "U", "T", ",",
      "P", "A", "T", "C", "H", ",", "P", "O", "S", "T", ",",
      "D", "E", "L", "E", "T", "E">>

\* The preflight response of cors with default options.
IsDefaultPreflightResponse(v) ==
    /\ IsResponse(v)
    /\ v.status = 204
    /\ v.text = ""
    /\ v.headers.allowOrigin = Value("*")
    /\ v.headers.allowMethods = Value(DefaultMethodsText)

HasRequestMethod(request) == request.headers.requestMethod.has

\* cors with default options, run for OPTIONS requests that carry an
\* Access-Control-Request-Method (one that is not empty when nonEmpty), has
\* not invoked next and has ended with the default preflight response.
ShortCircuitsWhen(nonEmpty) ==
    \A d \in DOMAIN disp :
      (disp[d].index # 0 /\ toUpperCase(disp[d].request.method) = OPTIONS
         /\ IF nonEmpty THEN IsPreflight(disp[d].request)
                        ELSE HasRequestMethod(disp[d].request)) =>
        /\ \A f \in CorsActive(d) :
             FnAt(disp[d].entry, f.pos).options = DefaultOptions => f.nexts = 0
        /\ \A rec \in CorsEnded(d) :
             rec.fn.options = DefaultOptions =>
               /\ rec.nexts = 0
               /\ IsDefaultPreflightResponse(rec.value)
               /\ disp[d].status = "resolved" /\ disp[d].result = rec.value

\* C24 as stated: with default options, an OPTIONS request that carries an
\* Access-Control-Request-Method header, whatever its value, is answered by
\* cors without next: status 204, empty body, Access-Control-Allow-Origin
\* '*' and Access-Control-Allow-Methods 'GET,HEAD,PUT,PATCH,POST,DELETE'.
C24_PreflightShortCircuit == ShortCircuitsWhen(FALSE)

\* C24: with default options, an OPTIONS request whose
\* Access-Control-Request-Method header is set and not empty is answered by
\* cors without next: status 204, empty body, Access-Control-Allow-Origin
\* '*' and Access-Control-Allow-Methods 'GET,HEAD,PUT,PATCH,POST,DELETE'.
C24_NonEmptyPreflightShortCircuit == ShortCircuitsWhen(TRUE)

\* A dispatch of OPTIONS with Access-Control-Request-Method: POST resolved
\* with the 204 of cors with default options, and the handler never ran.
C24_Witness ==
    \E d \in DOMAIN disp :
      /\ disp[d].status = "resolved"
      /\ toUpperCase(disp[d].request.method) = OPTIONS
      /\ disp[d].request.headers.requestMethod = Value("POST")
      /\ Len(disp[d].finished) = 1
      /\ Starts(d, 2) = 0
      /\ \E rec \in CorsEnded(d) :
           /\ rec.fn.options = DefaultOptions
           /\ rec.nexts = 0
           /\ disp[d].result = rec.value
           /\ rec.value.status = 204

\* The activations of cors that have ended with a Response that cors
\* decorated: every Response it returned, except the one next gave for an
\* OPTIONS request that is no preflight.
CorsDecorated(d) ==
    {rec \in CorsEnded(d) :
       /\ IsResponse(rec.value)
       /\ toUpperCase(disp[d].request.method) = OPTIONS =>
            IsPreflight(disp[d].request)}

\* C25: a Response decorated by cors with allowCredentials carries
\* Access-Control-Allow-Credentials 'true' and an
\* Access-Control-Allow-Origin that is not '*'; without an allowOrigin list
\* it carries the Origin of the request there.
C25_NoWildcardWithCredentials ==
    \A d \in DOMAIN disp : \A rec \in CorsDecorated(d) :
      rec.fn.options.allowCredentials =>
        /\ rec.value.headers.allowCredentials = Value("true")
        /\ rec.value.headers.allowOrigin # Value("*")
        /\ rec.fn.options.allowOrigin = Null =>
             rec.value.headers.allowOrigin = Value(RequestOrigin(disp[d].request))

\* The Response an ended activation of cors decorated, as it was before:
\* the one next gave it, or its own 204 when it had not invoked next.
Undecorated(d, rec) ==
    IF rec.nexts = 0
    THEN HeadersResponse("", 204, rec.fn,
                         [NoHeaders EXCEPT !.contentLength = Value("0")])
    ELSE LET j == CHOOSE i \in 1..Len(disp[d].finished) :
                    disp[d].finished[i].pos = rec.pos + 1
         IN disp[d].finished[j].value

\* The values of a Vary header, none when it is not set.
VaryOf(res) == IF res.headers.vary.has THEN res.headers.vary.value ELSE <<>>

\* C26: in a Response decorated by cors, Access-Control-Allow-Origin is '*'
\* when the options have no allowOrigin list (the request's Origin when
\* allowCredentials replaced the '*'); with a list, it is the request's
\* Origin, with 'Origin' appended to Vary, when the request's Origin is in
\* the list, and otherwise cors has set none: the header is as next left
\* it, and Vary has no 'Origin' appended.
C26_OriginLogic ==
    \A d \in DOMAIN disp : \A rec \in CorsDecorated(d) :
      LET opts == rec.fn.options
          origin == RequestOrigin(disp[d].request)
          before == Undecorated(d, rec)
          listed == opts.allowOrigin # Null
                      /\ origin \in Range(opts.allowOrigin.items)
      IN /\ opts.allowOrigin = Null =>
              /\ rec.value.headers.allowOrigin =
                   IF opts.allowCredentials THEN Value(origin) ELSE Value("*")
              /\ "Origin" \notin Range(VaryOf(rec.value))
         /\ listed =>
              /\ rec.value.headers.allowOrigin = Value(origin)
              /\ IsPrefix(VaryOf(before) \o <<"Origin">>, VaryOf(rec.value))
         /\ (opts.allowOrigin # Null /\ ~listed) =>
              /\ rec.value.headers.allowOrigin = before.headers.allowOrigin
              /\ "Origin" \notin Range(VaryOf(rec.value))

\* The text 'X-A,X-B'.
ExposedText == <<"X", "-", "A", ",", "X", "-", "B">>

\* The headers cors writes in answer to a preflight request only are in
\* `after` as they are in `before`.
NoPreflightHeaders(before, after) ==
    /\ after.headers.allowMethods = before.headers.allowMethods
    /\ after.headers.allowHeaders = before.headers.allowHeaders
    /\ after.headers.maxAge = before.headers.maxAge
    /\ after.headers.allowPrivateNetwork = before.headers.allowPrivateNetwork
    /\ "Access-Control-Request-Headers" \notin Range(VaryOf(after))

\* The Response `after` is `before` with the origin, credentials and
\* expose-headers headers that the options ask for, the same status and
\* body, and no preflight header.
Attached(before, after, opts) ==
    /\ after.status = before.status
    /\ after.text = before.text
    /\ after.of = before.of
    /\ opts.allowOrigin = Null => after.headers.allowOrigin.has
    /\ opts.allowCredentials => after.headers.allowCredentials = Value("true")
    /\ ~opts.allowCredentials =>
         after.headers.allowCredentials = before.headers.allowCredentials
    /\ opts.exposeHeaders # Null => after.headers.exposeHeaders = Value(ExposedText)
    /\ opts.exposeHeaders = Null =>
         after.headers.exposeHeaders = before.headers.exposeHeaders
    /\ NoPreflightHeaders(before, after)

\* C27 as stated: for every request that is not an OPTIONS request with an
\* Access-Control-Request-Method header, cors has invoked next once when it
\* ends, and the Response it returns is the one next gave with the origin,
\* credentials and expose-headers headers attached and no preflight header.
C27_OthersDecorated ==
    \A d \in DOMAIN disp : \A rec \in CorsEnded(d) :
      ~(toUpperCase(disp[d].request.method) = OPTIONS
          /\ HasRequestMethod(disp[d].request)) =>
        /\ rec.nexts = 1
        /\ IsResponse(rec.value) =>
             Attached(Undecorated(d, rec), rec.value, rec.fn.options)

\* C27: for every request cors does not treat as preflight, cors has
\* invoked next once when it ends, and it ends with what next gave it: for
\* a request whose method is not OPTIONS, the Response with the origin,
\* credentials and expose-headers headers attached and no preflight
\* header; for an OPTIONS request, the Response as next gave it; and the
\* error, when next raised one.
C27_NonOptionsDecorated ==
    \A d \in DOMAIN disp : \A rec \in CorsEnded(d) :
      ~IsPreflight(disp[d].request) =>
        /\ rec.nexts = 1
        /\ Starts(d, rec.pos + 1) = 1
        /\ IsError(rec.value) => rec.value = Undecorated(d, rec)
        /\ (IsResponse(rec.value)
              /\ toUpperCase(disp[d].request.method) # OPTIONS) =>
             Attached(Undecorated(d, rec), rec.value, rec.fn.options)
        /\ (IsResponse(rec.value)
              /\ toUpperCase(disp[d].request.method) = OPTIONS) =>
             rec.value = Undecorated(d, rec)

\* A GET request went through cors with allowCredentials, exposeHeaders and
\* every preflight option set; the response of the dispatch carries the
\* credentials and expose-headers headers and no Access-Control-Allow-Methods.
C27_Witness ==
    \E d \in DOMAIN disp : \E rec \in CorsEnded(d) :
      /\ disp[d].request.method = GET
      /\ disp[d].request.headers.requestHeaders.has
      /\ rec.fn.options.allowCredentials
      /\ rec.fn.options.exposeHeaders # Null
      /\ rec.fn.options.allowMethods # Null
      /\ rec.nexts = 1
      /\ disp[d].status = "resolved"
      /\ disp[d].result = rec.value
      /\ rec.value.headers.allowCredentials = Value("true")
      /\ rec.value.headers.exposeHeaders = Value(ExposedText)
      /\ rec.value.headers.allowMethods = Absent

----------------------------------------------------------------------------
(* Properties of the scope stack.                                          *)

\* A step of addRoute, called directly or by a sugar registrar.
RegistrarStep == nRoute' # nRoute

\* C28: addRoute and the sugar registrars leave the scope stack as it was:
\* the same frames, each with the same prefix, the same domain list and the
\* same middleware list.
C28_RegistrarKeepsScope ==
    [][RegistrarStep =>
         /\ Len(groups') = Len(groups)
         /\ \A i \in 1..Len(groups) :
              /\ groups'[i].prefix = groups[i].prefix
              /\ groups'[i].domains = groups[i].domains
              /\ groups'[i].middlewares = groups[i].middlewares]_vars

\* C29: when the callback of a group() call returns and the call pops the
\* stack, the scope stack is what it was before the call: the same depth,
\* the same top frame and the same frames below it.
C29_FrameEndsWithCallback ==
    [][GroupReturn =>
         /\ Len(groups') = Len(Last(calls).saved)
         /\ TopGroup(groups') = TopGroup(Last(calls).saved)
         /\ groups' = Last(calls).saved]_vars

\* A step of group() up to the call of its callback.
GroupStep == nGroup' # nGroup

\* C30: the frame group(params) pushes is the top frame's prefix joined with
\* params' prefix, its domain list followed by params' domains and its
\* middleware list followed by params' middlewares; so the prefix joins the
\* prefixes of all the enclosing group() calls and this one, root to leaf,
\* the domains are theirs concatenated, and the middlewares are theirs,
\* outer first.
C30_FrameExtendsTop ==
    [][GroupStep =>
         LET frame == Last(groups')
             top == TopGroup(groups)
             call == Last(calls')
         IN /\ Len(groups') = Len(groups) + 1
            /\ frame.prefix =
                 ExpectedPath(Segments(IF top = Null THEN <<>> ELSE top.prefix)
                                \o call.segments)
            /\ frame.domains =
                 (IF top = Null THEN <<>> ELSE top.domains) \o call.domains
            /\ frame.middlewares =
                 (IF top = Null THEN <<>> ELSE top.middlewares) \o call.middlewares
            /\ frame.prefix = ExpectedPath(Flatten(calls', "segments"))
            /\ frame.domains = Flatten(calls', "domains")
            /\ frame.middlewares = Flatten(calls', "middlewares")]_vars

----------------------------------------------------------------------------
(* Properties of the route table.                                          *)

\* Every list of the table is in the next state what it is now, with
\* entries added at its end or none.
TableGrows ==
    \A m \in DOMAIN routes :
      /\ m \in DOMAIN routes'
      /\ IsPrefix(routes[m], routes'[m])

\* A registrar call at top level appends one entry to the list of each of
\* its methods, whatever the list holds.
OneMore ==
    nRoute' = nRoute + 1 =>
      LET dec == Last(declared')
      IN \A j \in 1..Len(dec.methods) :
           LET m == toUpperCase(trim(dec.methods[j]))
           IN /\ LenOf(routes', m) = LenOf(routes, m) + 1
              /\ Last(routes'[m]).handler = dec.handler

\* Of two entries of a list with the same pattern, a dispatch does not
\* select the later one.
EarlierOfTwo ==
    \A d \in DOMAIN disp :
      disp[d].index # 0 =>
        LET list == RoutesOf(routes, disp[d].request)
        IN \A i, j \in 1..Len(list) :
             (i < j /\ list[i].pattern = list[j].pattern) => disp[d].index # j

\* C31: no step removes, replaces or reorders an entry of the route table;
\* a registrar call appends an entry even when the list has one with the
\* same pattern; and of two entries with the same method and pattern the
\* earlier is the one dispatched.
C31_TableAppendOnly ==
    [][TableGrows /\ OneMore]_vars /\ []EarlierOfTwo

\* The list of the request's method holds two entries with the same
\* pattern and different handlers, and the dispatch has run the handler
\* of the first.
C31_Witness ==
    \E d \in DOMAIN disp :
      LET list == RoutesOf(routes, disp[d].request)
      IN /\ Len(list) = 2
         /\ list[1].pattern = list[2].pattern
         /\ list[1].handler # list[2].handler
         /\ disp[d].index = 1
         /\ HandlersRun(d) = {list[1].handler}
         /\ disp[d].status = "resolved"

----------------------------------------------------------------------------
(* Properties of registration during a dispatch.                           *)

\* A step of use(), of group() or of a registrar.
RegistrationStep ==
    nUse' # nUse \/ nGroup' # nGroup \/ nRoute' # nRoute \/ calls' # calls

\* The dispatch call d is suspended: it has started and has not settled.
Suspended(d) == disp[d].status = "pending"

\* C32: a dispatch that is suspended has made its selection: it holds the
\* entry that the scan gives for its request, then and now, and it has
\* invoked, in order, functions of that entry's chain and no other; and a
\* use(), group() or registrar step taken meanwhile leaves the call, its
\* entry and what it has run as they are.
C32_SelectionAtomic ==
    /\ [](\A d \in DOMAIN disp :
            Suspended(d) =>
              LET dsp == disp[d]
                  list == RoutesOf(routes, dsp.request)
              IN /\ dsp.index # 0
                 /\ dsp.started # <<>>
                 /\ dsp.index = Select(routes, dsp.request)
                 /\ dsp.entry.handler = list[dsp.index].handler
                 /\ dsp.entry.middlewares = list[dsp.index].middlewares
                 /\ dsp.entry.pattern = list[dsp.index].pattern
                 /\ \A j \in 1..Len(dsp.started) :
                      dsp.started[j] = Started(dsp.entry, dsp.started[j].pos)
                 /\ \A i \in 1..Len(dsp.stack) : dsp.stack[i].pos = i)
    /\ [][RegistrationStep => disp' = disp]_vars

\* A dispatch is suspended in its handler, behind a middleware, while the
\* callback of a group() call made after it started is executing and has
\* registered a route, with one more middleware, that matches its request.
C32_Witness ==
    \E d \in DOMAIN disp :
      /\ Suspended(d)
      /\ calls # <<>>
      /\ Len(disp[d].entry.middlewares) = 1
      /\ Len(disp[d].stack) = 2
      /\ LET list == RoutesOf(routes, disp[d].request)
         IN \E j \in 1..Len(list) :
              /\ j > disp[d].index
              /\ Matches(list[j].pattern, disp[d].request.hostname,
                         disp[d].request.pathname)
              /\ Len(list[j].middlewares) = 2

----------------------------------------------------------------------------
(* Properties of cors on an OPTIONS request that is no preflight.          *)

\* The request is an OPTIONS request without an
\* Access-Control-Request-Method header.
PlainOptions(request) ==
    /\ toUpperCase(request.method) = OPTIONS
    /\ ~HasRequestMethod(request)

\* C33: when cors ends on an OPTIONS request without an
\* Access-Control-Request-Method header, it has invoked next once, the
\* next function has started once, and cors ends with what next gave it,
\* unchanged: a Response carries the headers it carried, so no
\* Access-Control-Allow-Origin unless it had one already.
C33_PlainOptionsUntouched ==
    \A d \in DOMAIN disp : \A rec \in CorsEnded(d) :
      PlainOptions(disp[d].request) =>
        /\ rec.nexts = 1
        /\ Starts(d, rec.pos + 1) = 1
        /\ rec.value = Undecorated(d, rec)
        /\ IsResponse(rec.value) =>
             /\ rec.value.headers = Undecorated(d, rec).headers
             /\ rec.value.of # rec.fn

\* An OPTIONS request with an Origin and no Access-Control-Request-Method
\* went through cors with credentials and exposed headers configured; the
\* dispatch resolved with the handler's Response, which has no header that
\* cors writes.
C33_Witness ==
    \E d \in DOMAIN disp : \E rec \in CorsEnded(d) :
      /\ PlainOptions(disp[d].request)
      /\ disp[d].request.headers.origin = Value(EXAMPLE)
      /\ rec.fn.options.allowCredentials
      /\ rec.fn.options.exposeHeaders # Null
      /\ rec.nexts = 1
      /\ disp[d].status = "resolved"
      /\ disp[d].result = rec.value
      /\ rec.value.status = 200
      /\ rec.value.headers = NoHeaders

====
